---- MODULE Spec2Model ----
(***************************************************************************)
(* The authorization type system of openfga: the validator NewAndValidate  *)
(* and the relationship graph built on a model.  The package's sources are *)
(* not part of src/; its test corpus (src/unnamed/part_002) is, and pins   *)
(* the behaviour the definitions below reproduce.  After it, the server:   *)
(* the requests that resolve an authorization model ID, the interceptors   *)
(* in front of the handlers, and Server.Run.                               *)
(***************************************************************************)
EXTENDS Integers, Sequences, FiniteSets, TLC

VARIABLES model, pc, err, marked, round, query, stack, visitedFrames, calls, expansions,
          models, requests, call, run

\* The state of one walk of the graph: the frames still to enter, the frames
\* visited, and how often each frame was called and expanded.
walk == <<stack, visitedFrames, calls, expansions>>

\* The state of the server: the authorization models written to the store,
\* the requests in flight, the call passing through an interceptor, and Run.
server == <<models, requests, call, run>>

vars == <<model, pc, err, marked, round, query, stack, visitedFrames, calls, expansions,
          models, requests, call, run>>

(***************************************************************************)
(* Model values: userset rewrites, relation references, type definitions.  *)
(***************************************************************************)
SchemaVersion1_0 == "1.0"

SchemaVersion1_1 == "1.1"

\* A Userset whose oneof is not set.
NilRewrite == [k |-> "nil", rel |-> "", ts |-> "", ch |-> <<>>]

This == [k |-> "this", rel |-> "", ts |-> "", ch |-> <<>>]

ComputedUserset(relation) == [k |-> "cu", rel |-> relation, ts |-> "", ch |-> <<>>]

TupleToUserset(tupleset, computed) == [k |-> "ttu", rel |-> computed, ts |-> tupleset, ch |-> <<>>]

Union(children) == [k |-> "union", rel |-> "", ts |-> "", ch |-> children]

Intersection(children) == [k |-> "inter", rel |-> "", ts |-> "", ch |-> children]

Difference(base, subtract) == [k |-> "diff", rel |-> "", ts |-> "", ch |-> <<base, subtract>>]

DirectRelationReference(objectType, relation) == [type |-> objectType, rel |-> relation, wild |-> FALSE]

WildcardRelationReference(objectType) == [type |-> objectType, rel |-> "", wild |-> TRUE]

\* One relation of a type definition: its rewrite and its directly related user types.
Rel(rewrite, types) == [rw |-> rewrite, ti |-> types]

NoRelations == [n \in {} |-> Rel(This, <<>>)]

\* A TypeDefinition: Relations (name -> Userset) and Metadata.Relations
\* (name -> DirectlyRelatedUserTypes, empty when the metadata is absent).
TypeDefinition(objectType, defs) ==
    [type |-> objectType,
     relations |-> [n \in DOMAIN defs |-> defs[n].rw],
     metadata |-> [n \in DOMAIN defs |-> defs[n].ti]]

AuthorizationModel(schema, typedefs) == [schema |-> schema, tds |-> typedefs]

Range(s) == {s[i] : i \in DOMAIN s}

(***************************************************************************)
(* Lookups of the type system handle.                                      *)
(***************************************************************************)
TypeNames(m) == {m.tds[i].type : i \in DOMAIN m.tds}

HasType(m, T) == T \in TypeNames(m)

\* New() indexes the type definitions by name.
TypeDef(m, T) == m.tds[CHOOSE i \in DOMAIN m.tds : m.tds[i].type = T]

RelationNames(m, T) == IF HasType(m, T) THEN DOMAIN TypeDef(m, T).relations ELSE {}

HasRelation(m, T, R) == R \in RelationNames(m, T)

GetRewrite(m, T, R) == TypeDef(m, T).relations[R]

GetDirectlyRelatedUserTypes(m, T, R) == TypeDef(m, T).metadata[R]

\* Every (type, relation) pair of the model.
AllRelations(m) == UNION {{<<T, R>> : R \in RelationNames(m, T)} : T \in TypeNames(m)}

(***************************************************************************)
(* Rewrite walker.                                                         *)
(***************************************************************************)
IsCombinator(rw) == rw.k \in {"union", "inter", "diff"}

RECURSIVE Leaves(_)
\* The leaves (This, ComputedUserset, TupleToUserset, unset) of a rewrite tree.
Leaves(rw) ==
    IF IsCombinator(rw)
    THEN UNION {Leaves(rw.ch[i]) : i \in DOMAIN rw.ch}
    ELSE {rw}

RECURSIVE RewriteContainsSelfInBase(_)
\* A variant of RewriteContainsSelf that leaves out the subtract side of a
\* difference.
RewriteContainsSelfInBase(rw) ==
    CASE rw.k = "this" -> TRUE
      [] rw.k \in {"union", "inter"} ->
            \E i \in DOMAIN rw.ch : RewriteContainsSelfInBase(rw.ch[i])
      [] rw.k = "diff" -> RewriteContainsSelfInBase(rw.ch[1])
      [] OTHER -> FALSE

RECURSIVE RewriteContainsSelf(_)
RewriteContainsSelf(rw) ==
    CASE rw.k = "this" -> TRUE
      [] IsCombinator(rw) -> \E i \in DOMAIN rw.ch : RewriteContainsSelf(rw.ch[i])
      [] OTHER -> FALSE

RECURSIVE RewriteContainsIntersection(_)
RewriteContainsIntersection(rw) ==
    CASE rw.k = "inter" -> TRUE
      [] rw.k \in {"union", "diff"} -> \E i \in DOMAIN rw.ch : RewriteContainsIntersection(rw.ch[i])
      [] OTHER -> FALSE

RECURSIVE RewriteContainsExclusion(_)
RewriteContainsExclusion(rw) ==
    CASE rw.k = "diff" -> TRUE
      [] rw.k \in {"union", "inter"} -> \E i \in DOMAIN rw.ch : RewriteContainsExclusion(rw.ch[i])
      [] OTHER -> FALSE

IsDirectlyAssignable(m, T, R) == RewriteContainsSelf(GetRewrite(m, T, R))

(***************************************************************************)
(* Errors of the validator.                                                *)
(***************************************************************************)
NoError == [kind |-> "", type |-> "", rel |-> "", reftype |-> "", refrel |-> ""]

Error(kind, T, R) == [kind |-> kind, type |-> T, rel |-> R, reftype |-> "", refrel |-> ""]

AssignableRelationError(T, R) == Error("AssignableRelationError", T, R)

NonAssignableRelationError(T, R) == Error("NonAssignableRelationError", T, R)

InvalidRelationTypeError(T, R, refType, refRelation) ==
    [kind |-> "InvalidRelationTypeError", type |-> T, rel |-> R,
     reftype |-> refType, refrel |-> refRelation]

ReservedKeywords == {"this", "self"}

(***************************************************************************)
(* Checks 1-5: names, duplicate types, rewrites.  Each operator gives the  *)
(* set of errors the check can return (empty: the check passes); the       *)
(* relation reported first is not fixed, the relations being kept in maps. *)
(***************************************************************************)
ReservedNameErrors(m) ==
    {Error("ErrReservedKeywords", m.tds[i].type, "") :
        i \in {j \in DOMAIN m.tds : m.tds[j].type \in ReservedKeywords}}
    \cup
    UNION {{Error("ErrReservedKeywords", m.tds[i].type, R) :
                R \in DOMAIN m.tds[i].relations \cap ReservedKeywords} :
           i \in DOMAIN m.tds}

containsDuplicateType(m) ==
    \E i, j \in DOMAIN m.tds : i # j /\ m.tds[i].type = m.tds[j].type

DuplicateTypeErrors(m) ==
    IF containsDuplicateType(m) THEN {Error("ErrDuplicateTypes", "", "")} ELSE {}

RECURSIVE IsEmptyRewrite(_)
\* An unset userset, or a combinator without its operands, at any depth.
IsEmptyRewrite(rw) ==
    CASE rw.k = "nil" -> TRUE
      [] rw.k \in {"union", "inter"} ->
            Len(rw.ch) = 0 \/ \E i \in DOMAIN rw.ch : IsEmptyRewrite(rw.ch[i])
      [] rw.k = "diff" ->
            Len(rw.ch) < 2 \/ \E i \in DOMAIN rw.ch : IsEmptyRewrite(rw.ch[i])
      [] OTHER -> FALSE

EmptyRewriteErrors(m) ==
    {Error("ErrInvalidUsersetRewrite", tr[1], tr[2]) :
        tr \in {x \in AllRelations(m) : IsEmptyRewrite(GetRewrite(m, x[1], x[2]))}}

\* A computed relation of a tuple-to-userset resolves when some type of the
\* model defines it (part_002:586 against part_002:96).
DefinedSomewhere(m, R) == \E T \in TypeNames(m) : HasRelation(m, T, R)

\* A variant of UnresolvedTargets that wants the computed relation of a
\* tuple-to-userset on a type the tupleset relation allows.
UnresolvedOnAllowedTypes(m, T, leaf) ==
    CASE leaf.k = "cu" -> IF HasRelation(m, T, leaf.rel) THEN {} ELSE {<<T, leaf.rel>>}
      [] leaf.k = "ttu" ->
            IF ~HasRelation(m, T, leaf.ts) THEN {<<T, leaf.ts>>}
            ELSE IF \A a \in Range(GetDirectlyRelatedUserTypes(m, T, leaf.ts)) :
                        ~(HasType(m, a.type) /\ HasRelation(m, a.type, leaf.rel))
                 THEN {<<"", leaf.rel>>}
            ELSE {}
      [] OTHER -> {}

\* The relations a leaf of (T, R)'s rewrite names without their being defined.
UnresolvedTargets(m, T, leaf) ==
    CASE leaf.k = "cu" -> IF HasRelation(m, T, leaf.rel) THEN {} ELSE {<<T, leaf.rel>>}
      [] leaf.k = "ttu" ->
            IF ~HasRelation(m, T, leaf.ts) THEN {<<T, leaf.ts>>}
            ELSE IF ~DefinedSomewhere(m, leaf.rel) THEN {<<"", leaf.rel>>}
            ELSE {}
      [] OTHER -> {}

RelationUndefinedErrors(m) ==
    UNION {UNION {{Error("ErrRelationUndefined", u[1], u[2]) :
                      u \in UnresolvedTargets(m, tr[1], leaf)} :
                  leaf \in Leaves(GetRewrite(m, tr[1], tr[2]))} :
           tr \in AllRelations(m)}

\* A variant of IsSelfReferencing that looks at the root of the rewrite only.
IsSelfReferencingAtRoot(m, T, R) ==
    GetRewrite(m, T, R).k = "cu" /\ GetRewrite(m, T, R).rel = R

\* The relation is a ComputedUserset leaf of its own rewrite tree.
IsSelfReferencing(m, T, R) ==
    \E leaf \in Leaves(GetRewrite(m, T, R)) : leaf.k = "cu" /\ leaf.rel = R

SelfReferenceErrors(m) ==
    {Error("ErrInvalidUsersetRewrite", tr[1], tr[2]) :
        tr \in {x \in AllRelations(m) : IsSelfReferencing(m, x[1], x[2])}}

(***************************************************************************)
(* Checks 6-7 (schema 1.1): the directly related user types.               *)
(***************************************************************************)
\* relation is the tupleset of a TupleToUserset in the rewrite of some
\* relation of objectType.
\* A variant of IsTuplesetRelation that looks at the root of each rewrite only.
IsTuplesetRelationAtRoot(m, T, R) ==
    \E R2 \in RelationNames(m, T) :
        GetRewrite(m, T, R2).k = "ttu" /\ GetRewrite(m, T, R2).ts = R

IsTuplesetRelation(m, T, R) ==
    \E R2 \in RelationNames(m, T) :
        \E leaf \in Leaves(GetRewrite(m, T, R2)) : leaf.k = "ttu" /\ leaf.ts = R

\* A reference of the list that names a missing type, or a missing relation.
IsDanglingReference(m, ref) ==
    \/ ~HasType(m, ref.type)
    \/ ref.rel # "" /\ ~HasRelation(m, ref.type, ref.rel)

TypeRestrictionErrorsOf(m, T, R) ==
    LET types == GetDirectlyRelatedUserTypes(m, T, R)
        assignable == IsDirectlyAssignable(m, T, R)
    IN  IF assignable /\ Len(types) = 0 THEN {AssignableRelationError(T, R)}
        ELSE IF ~assignable /\ Len(types) # 0 THEN {NonAssignableRelationError(T, R)}
        ELSE {InvalidRelationTypeError(T, R, types[i].type, types[i].rel) :
                 i \in {j \in DOMAIN types : IsDanglingReference(m, types[j])}}

TypeRestrictionErrors(m) ==
    UNION {TypeRestrictionErrorsOf(m, tr[1], tr[2]) : tr \in AllRelations(m)}

\* A variant of TuplesetRestrictionErrors that bans wildcards only.
TuplesetWildcardErrors(m) ==
    UNION {{InvalidRelationTypeError(tr[1], tr[2], ref.type, ref.rel) :
               ref \in {x \in Range(GetDirectlyRelatedUserTypes(m, tr[1], tr[2])) : x.wild}} :
           tr \in {y \in AllRelations(m) : IsTuplesetRelation(m, y[1], y[2])}}

\* A tupleset relation allows direct types only: no userset, no wildcard.
TuplesetRestrictionErrors(m) ==
    UNION {{InvalidRelationTypeError(tr[1], tr[2], ref.type, ref.rel) :
               ref \in {x \in Range(GetDirectlyRelatedUserTypes(m, tr[1], tr[2])) :
                           x.rel # "" \/ x.wild}} :
           tr \in {y \in AllRelations(m) : IsTuplesetRelation(m, y[1], y[2])}}

(***************************************************************************)
(* Check 8: the entrypoint analysis, a least fixed point over the          *)
(* (type, relation) pairs.                                                 *)
(***************************************************************************)
\* A variant of ThisHasEntrypoint that takes any allowed type for an
\* entrypoint, a userset of an unmarked relation included.
ThisHasEntrypointOfAnyType(m, T, R, M) ==
    Len(GetDirectlyRelatedUserTypes(m, T, R)) > 0

\* A This leaf of (T, R): a direct type, a wildcard, or a userset whose
\* relation is marked.
ThisHasEntrypoint(m, T, R, M) ==
    \E ref \in Range(GetDirectlyRelatedUserTypes(m, T, R)) :
        \/ ref.rel = ""
        \/ <<ref.type, ref.rel>> \in M

\* A TupleToUserset leaf: the computed relation is marked on a type the
\* tupleset relation allows.
TupleToUsersetHasEntrypoint(m, T, leaf, M) ==
    \E ref \in Range(GetDirectlyRelatedUserTypes(m, T, leaf.ts)) :
        <<ref.type, leaf.rel>> \in M

\* A variant of DifferenceHasEntrypoint that looks at the base only.
DifferenceHasEntrypointOnBase(base, subtract) == base

\* Both sides of a difference need an entrypoint (part_002:58, part_002:84).
DifferenceHasEntrypoint(base, subtract) == base /\ subtract

RECURSIVE RewriteHasEntrypoint(_, _, _, _, _)
\* Whether the rewrite rw of (T, R) is satisfied by the marked relations M.
RewriteHasEntrypoint(m, T, R, rw, M) ==
    CASE rw.k = "this" -> ThisHasEntrypoint(m, T, R, M)
      [] rw.k = "cu" -> <<T, rw.rel>> \in M
      [] rw.k = "ttu" -> TupleToUsersetHasEntrypoint(m, T, rw, M)
      [] rw.k = "union" ->
            \E i \in DOMAIN rw.ch : RewriteHasEntrypoint(m, T, R, rw.ch[i], M)
      [] rw.k = "inter" ->
            \A i \in DOMAIN rw.ch : RewriteHasEntrypoint(m, T, R, rw.ch[i], M)
      [] rw.k = "diff" ->
            DifferenceHasEntrypoint(RewriteHasEntrypoint(m, T, R, rw.ch[1], M),
                                    RewriteHasEntrypoint(m, T, R, rw.ch[2], M))
      [] OTHER -> FALSE

\* One iteration: the relations whose definition the marked ones satisfy.
MarkStep(m, M) ==
    M \cup {tr \in AllRelations(m) :
               RewriteHasEntrypoint(m, tr[1], tr[2], GetRewrite(m, tr[1], tr[2]), M)}

\* A variant of ComputedSuccessors that follows the computed relation of a
\* tuple-to-userset as well.
ComputedSuccessorsThroughTuples(m, U, tr) ==
    {<<tr[1], leaf.rel>> :
        leaf \in {l \in Leaves(GetRewrite(m, tr[1], tr[2])) : l.k \in {"cu", "ttu"}}} \cap U

\* The unmarked relations a relation names in ComputedUserset leaves (under
\* union, intersection, exclusion; no tuple hop).
ComputedSuccessors(m, U, tr) ==
    {<<tr[1], leaf.rel>> :
        leaf \in {l \in Leaves(GetRewrite(m, tr[1], tr[2])) : l.k = "cu"}} \cap U

RECURSIVE ReEnters(_, _, _, _)
\* Following computed usersets from tr through unmarked relations comes
\* back to a relation of the path.
ReEnters(m, U, tr, path) ==
    \E s \in ComputedSuccessors(m, U, tr) :
        s \in path \/ ReEnters(m, U, s, path \cup {s})

\* The error reported for the unmarked relation tr.
NoEntrypointError(m, U, tr) ==
    IF ReEnters(m, U, tr, {tr})
    THEN Error("ErrNoEntryPointsLoop", tr[1], tr[2])
    ELSE Error("ErrNoEntrypoints", tr[1], tr[2])

EntrypointErrors(m, M) ==
    LET U == AllRelations(m) \ M
    IN  {NoEntrypointError(m, U, tr) : tr \in U}

RECURSIVE MarkedRelations(_, _)
\* The entrypoint iteration run to its end from the marked relations M.
MarkedRelations(m, M) ==
    IF MarkStep(m, M) = M THEN M ELSE MarkedRelations(m, MarkStep(m, M))

\* NewAndValidate as a function of the model: the errors of the first check
\* that fails, none when the model is accepted.
NewAndValidateErrors(m) ==
    IF ReservedNameErrors(m) # {} THEN ReservedNameErrors(m)
    ELSE IF DuplicateTypeErrors(m) # {} THEN DuplicateTypeErrors(m)
    ELSE IF EmptyRewriteErrors(m) # {} THEN EmptyRewriteErrors(m)
    ELSE IF RelationUndefinedErrors(m) # {} THEN RelationUndefinedErrors(m)
    ELSE IF SelfReferenceErrors(m) # {} THEN SelfReferenceErrors(m)
    ELSE IF m.schema # SchemaVersion1_1 THEN {}
    ELSE IF TypeRestrictionErrors(m) # {} THEN TypeRestrictionErrors(m)
    ELSE IF TuplesetRestrictionErrors(m) # {} THEN TuplesetRestrictionErrors(m)
    ELSE EntrypointErrors(m, MarkedRelations(m, {}))

Validates(m) == NewAndValidateErrors(m) = {}

(***************************************************************************)
(* The test corpus: each table is one test function of part_002, a case    *)
(* being its name, its model and the error it expects ("" for none).       *)
(***************************************************************************)
Case(name, m, expected) == [name |-> name, model |-> m, expected |-> expected]

Model11(typedefs) == AuthorizationModel(SchemaVersion1_1, typedefs)

UserType == TypeDefinition("user", NoRelations)

TestNewAndValidate ==
    LET user == DirectRelationReference("user", "")
        docViewer == DirectRelationReference("document", "viewer")
        cu(r) == ComputedUserset(r)
    IN
    { Case("direct_relationship_with_entrypoint",
           Model11(<<UserType,
                     TypeDefinition("document", [viewer |-> Rel(This, <<user>>)])>>), ""),
      Case("computed_relationship_with_entrypoint",
           Model11(<<UserType,
                     TypeDefinition("document", [editor |-> Rel(This, <<user>>),
                                                 viewer |-> Rel(cu("editor"), <<>>)])>>), ""),
      Case("no_entrypoint_1",
           Model11(<<UserType,
                     TypeDefinition("document",
                        [admin |-> Rel(This, <<user>>),
                         action1 |-> Rel(Intersection(<<cu("admin"), cu("action2"), cu("action3")>>), <<>>),
                         action2 |-> Rel(Intersection(<<cu("admin"), cu("action1"), cu("action3")>>), <<>>),
                         action3 |-> Rel(Intersection(<<cu("admin"), cu("action1"), cu("action2")>>), <<>>)])>>),
           "ErrNoEntryPointsLoop"),
      Case("no_entrypoint_2",
           Model11(<<UserType,
                     TypeDefinition("document",
                        [admin |-> Rel(This, <<user>>),
                         action1 |-> Rel(Difference(cu("admin"), cu("action2")), <<>>),
                         action2 |-> Rel(Difference(cu("admin"), cu("action3")), <<>>),
                         action3 |-> Rel(Difference(cu("admin"), cu("action1")), <<>>)])>>),
           "ErrNoEntryPointsLoop"),
      Case("no_entrypoint_3a",
           Model11(<<UserType,
                     TypeDefinition("document",
                        [viewer |-> Rel(Intersection(<<This, cu("editor")>>), <<docViewer>>),
                         editor |-> Rel(This, <<user>>)])>>),
           "ErrNoEntrypoints"),
      Case("no_entrypoint_3b",
           Model11(<<UserType,
                     TypeDefinition("document",
                        [viewer |-> Rel(Difference(This, cu("editor")), <<docViewer>>),
                         editor |-> Rel(This, <<user>>)])>>),
           "ErrNoEntrypoints"),
      Case("no_entrypoint_4",
           Model11(<<UserType,
                     TypeDefinition("folder",
                        [parent |-> Rel(This, <<DirectRelationReference("document", "")>>),
                         viewer |-> Rel(TupleToUserset("parent", "editor"), <<>>)]),
                     TypeDefinition("document",
                        [parent |-> Rel(This, <<DirectRelationReference("folder", "")>>),
                         editor |-> Rel(cu("viewer"), <<>>),
                         viewer |-> Rel(TupleToUserset("parent", "editor"), <<>>)])>>),
           "ErrNoEntrypoints"),
      Case("self_referencing_type_restriction_with_entrypoint_1",
           Model11(<<UserType,
                     TypeDefinition("document",
                        [restricted |-> Rel(This, <<user>>),
                         editor |-> Rel(This, <<user>>),
                         viewer |-> Rel(Union(<<This, cu("editor")>>), <<docViewer>>),
                         can_view |-> Rel(Difference(cu("viewer"), cu("restricted")), <<>>),
                         can_view_actual |-> Rel(cu("can_view"), <<>>)])>>), ""),
      Case("self_referencing_type_restriction_with_entrypoint_2",
           Model11(<<UserType,
                     TypeDefinition("document",
                        [editor |-> Rel(This, <<user>>),
                         viewer |-> Rel(Union(<<This, cu("editor")>>), <<docViewer>>)])>>), "") }

TestSuccessfulRewriteValidations ==
    LET user == DirectRelationReference("user", "")
        cu(r) == ComputedUserset(r)
    IN
    { Case("empty_relations", Model11(<<TypeDefinition("repo", NoRelations)>>), ""),
      Case("intersection_may_contain_repeated_relations",
           Model11(<<UserType,
                     TypeDefinition("document",
                        [editor |-> Rel(This, <<user>>),
                         viewer |-> Rel(Intersection(<<cu("editor"), cu("editor")>>), <<>>)])>>), ""),
      Case("exclusion_may_contain_repeated_relations",
           Model11(<<UserType,
                     TypeDefinition("document",
                        [editor |-> Rel(This, <<user>>),
                         viewer |-> Rel(Difference(cu("editor"), cu("editor")), <<>>)])>>), "") }

TestInvalidRewriteValidations ==
    LET user == DirectRelationReference("user", "")
        cu(r) == ComputedUserset(r)
        doc(rw) == Model11(<<TypeDefinition("document", [reader |-> Rel(rw, <<>>)])>>)
    IN
    { Case("empty_rewrites", doc(NilRewrite), "ErrInvalidUsersetRewrite"),
      Case("duplicate_types_is_invalid",
           Model11(<<TypeDefinition("repo", NoRelations), TypeDefinition("repo", NoRelations)>>),
           "ErrDuplicateTypes"),
      Case("self_reference_in_computedUserset", doc(cu("reader")), "ErrInvalidUsersetRewrite"),
      Case("self_reference_in_union", doc(Union(<<This, cu("reader")>>)), "ErrInvalidUsersetRewrite"),
      Case("self_reference_in_intersection",
           doc(Intersection(<<This, cu("reader")>>)), "ErrInvalidUsersetRewrite"),
      Case("self_reference_in_difference_base",
           doc(Difference(cu("reader"), This)), "ErrInvalidUsersetRewrite"),
      Case("self_reference_in_difference_subtract",
           doc(Difference(This, cu("reader"))), "ErrInvalidUsersetRewrite"),
      Case("computedUserset_to_relation_which_does_not_exist",
           doc(cu("writer")), "ErrRelationUndefined"),
      Case("computedUserset_in_a_union", doc(Union(<<This, cu("writer")>>)), "ErrRelationUndefined"),
      Case("computedUserset_in_a_intersection",
           doc(Intersection(<<This, cu("writer")>>)), "ErrRelationUndefined"),
      Case("computedUserset_in_a_difference_base",
           doc(Difference(cu("writer"), This)), "ErrRelationUndefined"),
      Case("computedUserset_in_a_difference_subtract",
           doc(Difference(This, cu("writer"))), "ErrRelationUndefined"),
      Case("tupleToUserset_where_tupleset_is_not_valid",
           Model11(<<TypeDefinition("group", [member |-> Rel(This, <<>>)]),
                     TypeDefinition("document",
                        [reader |-> Rel(Union(<<This, TupleToUserset("notavalidrelation", "member")>>), <<>>),
                         writer |-> Rel(This, <<>>)])>>),
           "ErrRelationUndefined"),
      Case("tupleToUserset_where_computed_userset_is_not_valid",
           Model11(<<UserType,
                     TypeDefinition("document",
                        [reader |-> Rel(TupleToUserset("writer", "notavalidrelation"), <<>>),
                         writer |-> Rel(This, <<user>>)])>>),
           "ErrRelationUndefined"),
      Case("Fails_If_Using_This_As_Relation_Name",
           Model11(<<TypeDefinition("repo", ("this" :> Rel(This, <<>>)))>>), "ErrReservedKeywords"),
      Case("Fails_If_Using_Self_As_Relation_Name",
           Model11(<<TypeDefinition("repo", ("self" :> Rel(This, <<>>)))>>), "ErrReservedKeywords"),
      Case("Fails_If_Using_This_As_Type_Name",
           Model11(<<TypeDefinition("this", [viewer |-> Rel(This, <<>>)])>>), "ErrReservedKeywords"),
      Case("Fails_If_Using_Self_As_Type_Name",
           Model11(<<TypeDefinition("self", [viewer |-> Rel(This, <<>>)])>>), "ErrReservedKeywords"),
      Case("Fails_If_Auth_Model_1.1_Has_A_Cycle_And_Only_One_Type",
           Model11(<<TypeDefinition("folder",
                        [parent |-> Rel(This, <<DirectRelationReference("folder", "")>>),
                         viewer |-> Rel(TupleToUserset("parent", "viewer"), <<>>)])>>),
           "ErrNoEntrypoints") }

TestSuccessfulRelationTypeRestrictionsValidations ==
    LET user == DirectRelationReference("user", "")
    IN
    { Case("succeeds_on_a_valid_typeSystem_with_an_objectType_type",
           Model11(<<UserType, TypeDefinition("document", [reader |-> Rel(This, <<user>>)])>>),
           NoError),
      Case("succeeds_on_a_valid_typeSystem_with_a_type_and_type#relation_type",
           Model11(<<UserType,
                     TypeDefinition("group", [admin |-> Rel(This, <<user>>),
                                              member |-> Rel(This, <<user>>)]),
                     TypeDefinition("document",
                        [reader |-> Rel(This, <<user, DirectRelationReference("group", "member")>>),
                         writer |-> Rel(This, <<user, DirectRelationReference("group", "admin")>>)])>>),
           NoError) }

TestInvalidRelationTypeRestrictionsValidations ==
    LET user == DirectRelationReference("user", "")
        cu(r) == ComputedUserset(r)
        \* writer: [user] with reader an assignable rewrite without types
        noType(rw) == Model11(<<UserType,
                                TypeDefinition("document", [writer |-> Rel(This, <<user>>),
                                                            reader |-> Rel(rw, <<>>)])>>)
    IN
    { Case("relational_type_which_does_not_exist",
           Model11(<<TypeDefinition("document",
                        [reader |-> Rel(This, <<DirectRelationReference("group", "")>>)])>>),
           InvalidRelationTypeError("document", "reader", "group", "")),
      Case("relation_type_of_form_type#relation_where_relation_doesn't_exist",
           Model11(<<TypeDefinition("group", NoRelations),
                     TypeDefinition("document",
                        [reader |-> Rel(This, <<DirectRelationReference("group", "admin")>>)])>>),
           InvalidRelationTypeError("document", "reader", "group", "admin")),
      Case("assignable_relation_with_no_type:_this",
           Model11(<<TypeDefinition("document", [reader |-> Rel(This, <<>>)])>>),
           AssignableRelationError("document", "reader")),
      Case("assignable_relation_with_no_type:_union",
           noType(Union(<<This, cu("writer")>>)), AssignableRelationError("document", "reader")),
      Case("assignable_relation_wit_no_type:_intersection",
           noType(Intersection(<<This, cu("writer")>>)), AssignableRelationError("document", "reader")),
      Case("assignable_relation_with_no_type:_difference base",
           noType(Difference(This, cu("writer"))), AssignableRelationError("document", "reader")),
      Case("assignable_relation_with_no_type:_difference_subtract",
           noType(Difference(cu("writer"), This)), AssignableRelationError("document", "reader")),
      Case("non-assignable_relation_with_a_type",
           Model11(<<UserType,
                     TypeDefinition("document", [writer |-> Rel(This, <<user>>),
                                                 reader |-> Rel(cu("writer"), <<user>>)])>>),
           NonAssignableRelationError("document", "reader")),
      Case("userset_specified_as_allowed_type_but_the_relation_is_used_in_a_TTU_rewrite",
           Model11(<<UserType,
                     TypeDefinition("folder", [member |-> Rel(This, <<user>>)]),
                     TypeDefinition("document",
                        [parent |-> Rel(This, <<DirectRelationReference("folder", "member")>>),
                         can_view |-> Rel(TupleToUserset("parent", "member"), <<>>)])>>),
           InvalidRelationTypeError("document", "parent", "folder", "member")),
      Case("userset_specified_as_allowed_type_but_the_relation_is_used_in_a_TTU_rewrite_included_in_a_union",
           Model11(<<UserType,
                     TypeDefinition("folder",
                        [parent |-> Rel(This, <<DirectRelationReference("folder", "")>>),
                         viewer |-> Rel(This, <<user>>)]),
                     TypeDefinition("document",
                        [parent |-> Rel(This, <<DirectRelationReference("folder", "parent")>>),
                         viewer |-> Rel(Union(<<TupleToUserset("parent", "viewer"), This>>),
                                        <<user, DirectRelationReference("folder", "parent")>>)])>>),
           InvalidRelationTypeError("document", "parent", "folder", "parent")),
      Case("WildcardNotAllowedInTheTuplesetPartOfTTU",
           Model11(<<UserType,
                     TypeDefinition("folder", [viewer |-> Rel(This, <<user>>)]),
                     TypeDefinition("document",
                        [parent |-> Rel(This, <<WildcardRelationReference("folder")>>),
                         viewer |-> Rel(Union(<<This, TupleToUserset("parent", "viewer")>>), <<user>>)])>>),
           InvalidRelationTypeError("document", "parent", "folder", "")) }

\* The cases whose expectation is an error kind (require.ErrorIs).
KindCases ==
    TestNewAndValidate \cup TestSuccessfulRewriteValidations \cup TestInvalidRewriteValidations

\* The cases whose expectation is the whole error (require.EqualError).
ErrorCases ==
    TestSuccessfulRelationTypeRestrictionsValidations
        \cup TestInvalidRelationTypeRestrictionsValidations

TestModels == {c.model : c \in KindCases \cup ErrorCases}

(***************************************************************************)
(* NewAndValidate as a state machine: the checks in order, each over the   *)
(* whole model, the first failing one ending the validation.               *)
(***************************************************************************)
\* No reference: the tupleset relation of an edge that has none.
NoReference == [type |-> "", rel |-> "", wild |-> FALSE]

NoQuery ==
    [op |-> "", target |-> NoReference, source |-> NoReference, edges |-> <<>>,
     value |-> FALSE, err |-> ""]

\* No walk of the graph has started.
NoWalk == stack = <<>> /\ visitedFrames = {} /\ calls = <<>> /\ expansions = <<>>

\* No server is running.
NoServer == models = <<>> /\ requests = <<>> /\ call = <<>> /\ run = <<>>

(***************************************************************************)
(* The generated models: a type user and a type document with the          *)
(* relations parent, viewer and editor.                                    *)
(***************************************************************************)
\* The operands of a generated union or intersection.
MaxOperands == 2

User == DirectRelationReference("user", "")

Document == DirectRelationReference("document", "")

\* The leaves a rewrite of viewer is built from; writer is defined nowhere.
CoreLeaves ==
    {This, ComputedUserset("editor"), ComputedUserset("parent"),
     TupleToUserset("parent", "viewer")}

OtherLeaves ==
    {ComputedUserset("viewer"), TupleToUserset("parent", "editor")}

UndefinedLeaves ==
    {ComputedUserset("writer"), TupleToUserset("parent", "writer"),
     TupleToUserset("writer", "editor")}

OperandLists(S) == UNION {[1..n -> S] : n \in 2..MaxOperands}

Pairs(S, T) == {<<x, y>> : x \in S, y \in T} \cup {<<y, x>> : x \in S, y \in T}

Combinations(lists, pairs) ==
    {Union(c) : c \in lists} \cup {Intersection(c) : c \in lists}
        \cup {Difference(c[1], c[2]) : c \in pairs}

ViewerRewrites ==
    CoreLeaves \cup OtherLeaves \cup UndefinedLeaves
        \cup {NilRewrite, Union(<<>>), Intersection(<<This, NilRewrite>>)}
        \cup Combinations(OperandLists(CoreLeaves), CoreLeaves \X CoreLeaves)
        \cup Combinations(Pairs({This, ComputedUserset("editor")}, OtherLeaves \cup UndefinedLeaves),
                          Pairs({This, ComputedUserset("editor")}, OtherLeaves \cup UndefinedLeaves))
        \cup {Union(<<This, Difference(ComputedUserset("editor"), leaf)>>) :
                 leaf \in OtherLeaves \cup UndefinedLeaves}

\* The type lists tried on a rewrite with, and without, a This leaf.
ViewerTypes(rw) ==
    IF RewriteContainsSelf(rw)
    THEN {<<User>>, <<WildcardRelationReference("user")>>, <<>>,
          <<DirectRelationReference("document", "viewer")>>,
          <<DirectRelationReference("document", "editor")>>}
    ELSE {<<>>, <<User>>}

ViewerDefs == UNION {{Rel(rw, t) : t \in ViewerTypes(rw)} : rw \in ViewerRewrites}

EditorDefs ==
    {Rel(This, <<User>>),
     Rel(This, <<DirectRelationReference("document", "viewer")>>),
     Rel(This, <<DirectRelationReference("document", "editor")>>),
     Rel(ComputedUserset("viewer"), <<>>),
     Rel(TupleToUserset("parent", "viewer"), <<>>),
     Rel(Union(<<This, ComputedUserset("viewer")>>), <<User>>),
     Rel(Intersection(<<ComputedUserset("parent"), ComputedUserset("viewer")>>), <<>>),
     Rel(Difference(ComputedUserset("parent"), ComputedUserset("viewer")), <<>>)}

ParentDefs == {Rel(This, <<Document>>), Rel(This, <<User>>)}

DocumentModel(schema, parent, viewer, editor) ==
    AuthorizationModel(schema,
        <<UserType,
          TypeDefinition("document", [parent |-> parent, viewer |-> viewer, editor |-> editor])>>)

RewriteModels ==
    {DocumentModel(SchemaVersion1_1, p, v, e) :
        p \in ParentDefs, v \in ViewerDefs, e \in EditorDefs}

\* The type lists tried on parent, the tupleset of the rewrites below.
ParentTypeLists ==
    {<<Document>>, <<User>>, <<>>, <<Document, User>>,
     <<WildcardRelationReference("document")>>,
     <<Document, WildcardRelationReference("user")>>,
     <<DirectRelationReference("document", "editor")>>,
     <<DirectRelationReference("group", "")>>,
     <<DirectRelationReference("document", "writer")>>}

TuplesetModels ==
    {DocumentModel(SchemaVersion1_1, Rel(This, t), v, e) :
        t \in ParentTypeLists,
        v \in {Rel(This, <<User>>),
               Rel(TupleToUserset("parent", "editor"), <<>>),
               Rel(Union(<<This, TupleToUserset("parent", "editor")>>), <<User>>),
               Rel(Intersection(<<This, TupleToUserset("parent", "editor")>>), <<User>>)},
        e \in {Rel(This, <<User>>),
               Rel(This, <<DirectRelationReference("document", "viewer")>>)}}

\* Schema 1.0 models carry no directly related user types.
Schema10Models ==
    {DocumentModel(SchemaVersion1_0, Rel(This, <<>>), Rel(rw, <<>>), Rel(This, <<>>)) :
        rw \in CoreLeaves \cup OtherLeaves \cup UndefinedLeaves
                 \cup {Union(<<This, TupleToUserset("parent", "editor")>>)}}

Models == TestModels \cup RewriteModels \cup TuplesetModels \cup Schema10Models

Init ==
    /\ model \in Models
    /\ pc = "names"
    /\ err = NoError
    /\ marked = {}
    /\ round = 0
    /\ query = NoQuery
    /\ NoWalk
    /\ NoServer

\* One check: fail with one of its errors, or go on to the next check.
Check(here, errors, next) ==
    /\ pc = here
    /\ \/ /\ errors # {}
          /\ \E e \in errors : err' = e
          /\ pc' = "done"
       \/ /\ errors = {}
          /\ err' = err
          /\ pc' = next
    /\ UNCHANGED <<model, marked, round, query, walk, server>>

ValidateNames == Check("names", ReservedNameErrors(model), "dups")

\* A variant of ValidateDuplicateTypes that lets duplicate types through.
ValidateDuplicateTypesSkipped == Check("dups", {}, "empty")

ValidateDuplicateTypes == Check("dups", DuplicateTypeErrors(model), "empty")

ValidateEmptyRewrites == Check("empty", EmptyRewriteErrors(model), "refs")

ValidateReferences == Check("refs", RelationUndefinedErrors(model), "selfref")

ValidateSelfReferences ==
    Check("selfref", SelfReferenceErrors(model),
          IF model.schema = SchemaVersion1_1 THEN "types" ELSE "done")

ValidateRelationTypeRestrictions == Check("types", TypeRestrictionErrors(model), "tuplesets")

ValidateTuplesetRestrictions == Check("tuplesets", TuplesetRestrictionErrors(model), "entry")

\* One iteration of the entrypoint fixed point that marks something new.
MarkEntrypoints ==
    /\ pc = "entry"
    /\ MarkStep(model, marked) # marked
    /\ marked' = MarkStep(model, marked)
    /\ round' = round + 1
    /\ UNCHANGED <<model, pc, err, query, walk, server>>

\* No change: the unmarked relations, if any, have no entrypoint.
ValidateEntrypoints ==
    /\ pc = "entry"
    /\ MarkStep(model, marked) = marked
    /\ Check("entry", EntrypointErrors(model, marked), "done")

Next ==
    \/ ValidateNames
    \/ ValidateDuplicateTypes
    \/ ValidateEmptyRewrites
    \/ ValidateReferences
    \/ ValidateSelfReferences
    \/ ValidateRelationTypeRestrictions
    \/ ValidateTuplesetRestrictions
    \/ MarkEntrypoints
    \/ ValidateEntrypoints

Spec == Init /\ [][Next]_vars

Done == pc = "done"

Accepted == Done /\ err = NoError

\* The checks taken one at a time end as NewAndValidate does as a whole.
ValidatorAgrees ==
    Done => /\ Accepted <=> Validates(model)
            /\ ~Accepted => err \in NewAndValidateErrors(model)

\* The validator returns what each case of the corpus expects.
CorpusAgrees ==
    Done =>
        /\ \A c \in KindCases : c.model = model => err.kind = c.expected
        /\ \A c \in ErrorCases : c.model = model => err = c.expected

(***************************************************************************)
(* The relationship graph over a type system: NewGraph(typesys) and its    *)
(* edge queries.                                                           *)
(***************************************************************************)
DirectEdge == "direct"

ComputedUsersetEdge == "computed_userset"

TupleToUsersetEdge == "ttu"

NoFurtherEvalCondition == "NoFurtherEvalCondition"

RequiresFurtherEvalCondition == "RequiresFurtherEvalCondition"

RelationshipEdge(type, target, tupleset, condition) ==
    [Type |-> type, TargetReference |-> target, TuplesetRelation |-> tupleset,
     Condition |-> condition]

\* A variant of IsDirectlyRelated in which a wildcard among the directly
\* related user types takes a direct source of its type as well.
IsDirectlyRelatedOrPublic(m, target, source) ==
    \E ref \in Range(GetDirectlyRelatedUserTypes(m, target.type, target.rel)) :
        /\ ref.type = source.type
        /\ \/ ~ref.wild /\ ref.rel = "" /\ ~source.wild /\ source.rel = ""
           \/ ref.wild /\ source.rel = ""
           \/ ref.rel # "" /\ ref.rel = source.rel

\* A variant of IsDirectlyRelated that relates no source.
IsDirectlyRelatedToNone(m, target, source) == FALSE

\* The source is one of the target's directly related user types: the same
\* type, and both a direct type, both a wildcard, or both the same relation.
IsDirectlyRelated(m, target, source) ==
    \E ref \in Range(GetDirectlyRelatedUserTypes(m, target.type, target.rel)) :
        /\ ref.type = source.type
        /\ \/ ~ref.wild /\ ref.rel = "" /\ ~source.wild /\ source.rel = ""
           \/ ref.wild /\ source.wild
           \/ ref.rel # "" /\ ref.rel = source.rel

\* A variant of IsPubliclyAssignable that looks for the wildcard of the
\* target's own type.
IsPubliclyAssignableOnTargetType(m, target, objectType) ==
    \E ref \in Range(GetDirectlyRelatedUserTypes(m, target.type, target.rel)) :
        ref.type = target.type /\ ref.wild

\* A variant of IsPubliclyAssignable that takes the wildcard of any type.
IsPubliclyAssignableOfAnyType(m, target, objectType) ==
    \E ref \in Range(GetDirectlyRelatedUserTypes(m, target.type, target.rel)) : ref.wild

\* The wildcard of objectType is one of the target's directly related user
\* types.
IsPubliclyAssignable(m, target, objectType) ==
    \E ref \in Range(GetDirectlyRelatedUserTypes(m, target.type, target.rel)) :
        ref.type = objectType /\ ref.wild

\* A variant of RelationSuccessors that follows the rewrite only, not the
\* usersets among the directly related user types.
RelationSuccessorsOfRewrite(m, tr) ==
    LET leaves == Leaves(GetRewrite(m, tr[1], tr[2]))
    IN  {<<tr[1], l.rel>> : l \in {x \in leaves : x.k = "cu"}}
        \cup UNION {{<<ref.type, l.rel>> :
                        ref \in IF HasRelation(m, tr[1], l.ts)
                                THEN Range(GetDirectlyRelatedUserTypes(m, tr[1], l.ts))
                                ELSE {}} :
                    l \in {x \in leaves : x.k = "ttu"}}

\* The relations the rewrite of (T, R) leads to: the computed usersets on T,
\* the computed relation of a tuple-to-userset on the types its tupleset
\* allows, and the usersets among the directly related user types.
RelationSuccessors(m, tr) ==
    LET leaves == Leaves(GetRewrite(m, tr[1], tr[2]))
    IN  {<<tr[1], l.rel>> : l \in {x \in leaves : x.k = "cu"}}
        \cup UNION {{<<ref.type, l.rel>> :
                        ref \in IF HasRelation(m, tr[1], l.ts)
                                THEN Range(GetDirectlyRelatedUserTypes(m, tr[1], l.ts))
                                ELSE {}} :
                    l \in {x \in leaves : x.k = "ttu"}}
        \cup {<<ref.type, ref.rel>> :
                 ref \in {x \in Range(GetDirectlyRelatedUserTypes(m, tr[1], tr[2])) :
                             x.rel # ""}}

\* A variant of ReachableRelations that stays at the relations it starts from.
StartingRelations(m, frontier, seen) ==
    {tr \in frontier : HasRelation(m, tr[1], tr[2])} \cup seen

RECURSIVE ReachableRelations(_, _, _)
\* The defined relations reached from those of `frontier`, `seen` included.
ReachableRelations(m, frontier, seen) ==
    LET fresh == {tr \in frontier : HasRelation(m, tr[1], tr[2])} \ seen
    IN  IF fresh = {} THEN seen
        ELSE ReachableRelations(m, UNION {RelationSuccessors(m, tr) : tr \in fresh},
                                seen \cup fresh)

RelationInvolvesIntersection(m, T, R) ==
    \E tr \in ReachableRelations(m, {<<T, R>>}, {}) :
        RewriteContainsIntersection(GetRewrite(m, tr[1], tr[2]))

\* A variant of RelationInvolvesExclusion that finds none.
RelationInvolvesExclusionNowhere(m, T, R) == FALSE

RelationInvolvesExclusion(m, T, R) ==
    \E tr \in ReachableRelations(m, {<<T, R>>}, {}) :
        RewriteContainsExclusion(GetRewrite(m, tr[1], tr[2]))

\* What a step of the edge walk returns: the edges found, the (type,
\* relation) frames visited so far, and the error that ended it.
EdgesResult(edges, visited, error) == [edges |-> edges, visited |-> visited, err |-> error]

\* A variant of RequiringFurtherEval that leaves every condition as it is.
KeepingConditions(edges) == edges

RequiringFurtherEval(edges) ==
    [i \in DOMAIN edges |-> [edges[i] EXCEPT !.Condition = RequiresFurtherEvalCondition]]

\* resolveAllEdges: every operand; resolveAnyEdges: the operand that proves.
ResolveAllEdges == "resolveAllEdges"

ResolveAnyEdges == "resolveAnyEdges"

RECURSIVE getRelationshipEdges(_, _, _, _, _)
RECURSIVE getRelationshipEdgesWithTargetRewrite(_, _, _, _, _, _)
RECURSIVE edgesOfTypeRestrictions(_, _, _, _, _, _)
RECURSIVE edgesOfTupleToUserset(_, _, _, _, _, _, _, _)
RECURSIVE edgesOfChildren(_, _, _, _, _, _, _)

\* The edges from target towards source; a frame visited before is skipped.
getRelationshipEdges(m, target, source, visited, option) ==
    LET key == <<target.type, target.rel>>
    IN  IF key \in visited THEN EdgesResult(<<>>, visited, "")
        ELSE IF ~HasType(m, target.type)
        THEN EdgesResult(<<>>, visited \cup {key}, "ErrObjectTypeUndefined")
        ELSE IF ~HasRelation(m, target.type, target.rel)
        THEN EdgesResult(<<>>, visited \cup {key}, "ErrRelationUndefined")
        ELSE getRelationshipEdgesWithTargetRewrite(
                 m, target, source, GetRewrite(m, target.type, target.rel),
                 visited \cup {key}, option)

\* The usersets among the type restrictions refs[i..], each walked in turn.
edgesOfTypeRestrictions(m, refs, i, source, visited, option) ==
    IF i > Len(refs) THEN EdgesResult(<<>>, visited, "")
    ELSE IF refs[i].rel = ""
    THEN edgesOfTypeRestrictions(m, refs, i + 1, source, visited, option)
    ELSE LET head == getRelationshipEdges(m, DirectRelationReference(refs[i].type, refs[i].rel),
                                          source, visited, option)
             tail == edgesOfTypeRestrictions(m, refs, i + 1, source, head.visited, option)
         IN  IF head.err # "" THEN head
             ELSE IF tail.err # "" THEN tail
             ELSE EdgesResult(head.edges \o tail.edges, tail.visited, "")

\* The tuple-to-userset rw of target, over the types refs[i..] its tupleset
\* relation allows; a type without the computed relation is passed over.
edgesOfTupleToUserset(m, target, source, rw, refs, i, visited, option) ==
    LET related == refs[i]
        matches == related.type = source.type /\ rw.rel = source.rel
        condition ==
            IF \/ RelationInvolvesIntersection(m, related.type, rw.rel)
               \/ RelationInvolvesExclusion(m, related.type, rw.rel)
            THEN RequiresFurtherEvalCondition
            ELSE NoFurtherEvalCondition
        edge == RelationshipEdge(TupleToUsersetEdge,
                                 DirectRelationReference(target.type, target.rel),
                                 DirectRelationReference(target.type, rw.ts), condition)
    IN  IF i > Len(refs) THEN EdgesResult(<<>>, visited, "")
        ELSE IF ~HasType(m, related.type)
        THEN EdgesResult(<<>>, visited, "ErrObjectTypeUndefined")
        ELSE IF ~HasRelation(m, related.type, rw.rel)
        THEN edgesOfTupleToUserset(m, target, source, rw, refs, i + 1, visited, option)
        ELSE LET head == getRelationshipEdges(m, DirectRelationReference(related.type, rw.rel),
                                              source, visited, option)
                 tail == edgesOfTupleToUserset(m, target, source, rw, refs, i + 1,
                                               head.visited, option)
             IN  IF head.err # "" THEN head
                 ELSE IF tail.err # "" THEN tail
                 ELSE EdgesResult((IF matches THEN <<edge>> ELSE <<>>) \o head.edges \o tail.edges,
                                  tail.visited, "")

\* The operands children[i..] of a union, an intersection or a difference.
edgesOfChildren(m, target, source, children, i, visited, option) ==
    IF i > Len(children) THEN EdgesResult(<<>>, visited, "")
    ELSE LET head == getRelationshipEdgesWithTargetRewrite(m, target, source, children[i],
                                                           visited, option)
             tail == edgesOfChildren(m, target, source, children, i + 1, head.visited, option)
         IN  IF head.err # "" THEN head
             ELSE IF tail.err # "" THEN tail
             ELSE EdgesResult(head.edges \o tail.edges, tail.visited, "")

getRelationshipEdgesWithTargetRewrite(m, target, source, rw, visited, option) ==
    LET self == DirectRelationReference(target.type, target.rel)
    IN
    CASE rw.k = "this" ->
            LET direct ==
                    IF \/ IsDirectlyRelated(m, target, source)
                       \/ IsPubliclyAssignable(m, target, source.type)
                    THEN <<RelationshipEdge(DirectEdge, self, NoReference, NoFurtherEvalCondition)>>
                    ELSE <<>>
                rest == edgesOfTypeRestrictions(
                            m, GetDirectlyRelatedUserTypes(m, target.type, target.rel), 1,
                            source, visited, option)
            IN  IF rest.err # "" THEN rest
                ELSE EdgesResult(direct \o rest.edges, rest.visited, "")
      [] rw.k = "cu" ->
            LET computed ==
                    IF target.type = source.type /\ rw.rel = source.rel
                    THEN <<RelationshipEdge(ComputedUsersetEdge, self, NoReference,
                                            NoFurtherEvalCondition)>>
                    ELSE <<>>
                rest == getRelationshipEdges(m, DirectRelationReference(target.type, rw.rel),
                                             source, visited, option)
            IN  IF rest.err # "" THEN rest
                ELSE EdgesResult(computed \o rest.edges, rest.visited, "")
      [] rw.k = "ttu" ->
            IF ~HasRelation(m, target.type, rw.ts)
            THEN EdgesResult(<<>>, visited, "ErrRelationUndefined")
            ELSE edgesOfTupleToUserset(m, target, source, rw,
                                       GetDirectlyRelatedUserTypes(m, target.type, rw.ts), 1,
                                       visited, option)
      [] rw.k = "union" -> edgesOfChildren(m, target, source, rw.ch, 1, visited, option)
      [] rw.k \in {"inter", "diff"} ->
            LET first == getRelationshipEdgesWithTargetRewrite(m, target, source, rw.ch[1],
                                                               visited, option)
                rest == IF option = ResolveAnyEdges THEN EdgesResult(<<>>, first.visited, "")
                        ELSE edgesOfChildren(m, target, source, rw.ch, 2, first.visited, option)
            IN  IF first.err # "" THEN first
                ELSE IF rest.err # "" THEN rest
                ELSE EdgesResult(RequiringFurtherEval(first.edges) \o rest.edges,
                                 rest.visited, "")
      [] OTHER -> EdgesResult(<<>>, visited, "")

\* A variant of GetRelationshipEdges that walks the first operand only.
GetFirstOperandEdges(m, target, source) ==
    getRelationshipEdges(m, target, source, {}, ResolveAnyEdges)

GetRelationshipEdges(m, target, source) ==
    getRelationshipEdges(m, target, source, {}, ResolveAllEdges)

\* A variant of GetPrunedRelationshipEdges that walks every operand.
GetEveryOperandEdges(m, target, source) ==
    getRelationshipEdges(m, target, source, {}, ResolveAllEdges)

GetPrunedRelationshipEdges(m, target, source) ==
    getRelationshipEdges(m, target, source, {}, ResolveAnyEdges)

EdgeCase(name, m, target, source, expected) ==
    [name |-> name, model |-> m, target |-> target, source |-> source, expected |-> expected]

TestPrunedRelationshipEdges ==
    { EdgeCase("basic_intersection",
           Model11(<<TypeDefinition("user", NoRelations),
                    TypeDefinition("document",
                  [allowed |-> Rel(This, <<DirectRelationReference("user", "")>>),
                   viewer |-> Rel(Intersection(<<This, ComputedUserset("allowed")>>), <<DirectRelationReference("user", "")>>)])>>),
           DirectRelationReference("document", "viewer"), DirectRelationReference("user", ""),
           <<RelationshipEdge(DirectEdge, DirectRelationReference("document", "viewer"), NoReference, RequiresFurtherEvalCondition)>>),
      EdgeCase("basic_intersection_through_ttu_1",
           Model11(<<TypeDefinition("user", NoRelations),
                    TypeDefinition("folder",
                  [allowed |-> Rel(This, <<DirectRelationReference("user", "")>>),
                   viewer |-> Rel(Intersection(<<This, ComputedUserset("allowed")>>), <<DirectRelationReference("user", "")>>)]),
                    TypeDefinition("document",
                  [parent |-> Rel(This, <<DirectRelationReference("folder", "")>>),
                   viewer |-> Rel(TupleToUserset("parent", "viewer"), <<>>)])>>),
           DirectRelationReference("document", "viewer"), DirectRelationReference("user", ""),
           <<RelationshipEdge(DirectEdge, DirectRelationReference("folder", "viewer"), NoReference, RequiresFurtherEvalCondition)>>),
      EdgeCase("basic_intersection_through_ttu_2",
           Model11(<<TypeDefinition("user", NoRelations),
                    TypeDefinition("organization",
                  [allowed |-> Rel(This, <<DirectRelationReference("user", "")>>),
                   viewer |-> Rel(Intersection(<<This, ComputedUserset("allowed")>>), <<DirectRelationReference("user", "")>>)]),
                    TypeDefinition("folder",
                  [parent |-> Rel(This, <<DirectRelationReference("organization", "")>>),
                   viewer |-> Rel(TupleToUserset("parent", "viewer"), <<>>)]),
                    TypeDefinition("document",
                  [parent |-> Rel(This, <<DirectRelationReference("folder", "")>>),
                   viewer |-> Rel(TupleToUserset("parent", "viewer"), <<>>)])>>),
           DirectRelationReference("document", "viewer"), DirectRelationReference("folder", "viewer"),
           <<RelationshipEdge(TupleToUsersetEdge, DirectRelationReference("document", "viewer"), DirectRelationReference("document", "parent"), RequiresFurtherEvalCondition)>>),
      EdgeCase("basic_exclusion_through_ttu_1",
           Model11(<<TypeDefinition("user", NoRelations),
                    TypeDefinition("folder",
                  [writer |-> Rel(This, <<DirectRelationReference("user", "")>>),
                   editor |-> Rel(This, <<DirectRelationReference("user", "")>>),
                   viewer |-> Rel(Difference(ComputedUserset("writer"), ComputedUserset("editor")), <<>>)]),
                    TypeDefinition("document",
                  [parent |-> Rel(This, <<DirectRelationReference("folder", "")>>),
                   viewer |-> Rel(TupleToUserset("parent", "viewer"), <<>>)])>>),
           DirectRelationReference("document", "viewer"), DirectRelationReference("user", ""),
           <<RelationshipEdge(DirectEdge, DirectRelationReference("folder", "writer"), NoReference, RequiresFurtherEvalCondition)>>),
      EdgeCase("basic_exclusion_through_ttu_2",
           Model11(<<TypeDefinition("user", NoRelations),
                    TypeDefinition("folder",
                  [writer |-> Rel(This, <<DirectRelationReference("user", "")>>),
                   editor |-> Rel(This, <<DirectRelationReference("user", "")>>),
                   viewer |-> Rel(Difference(ComputedUserset("writer"), ComputedUserset("editor")), <<>>)]),
                    TypeDefinition("document",
                  [parent |-> Rel(This, <<DirectRelationReference("folder", "")>>),
                   viewer |-> Rel(TupleToUserset("parent", "viewer"), <<>>)])>>),
           DirectRelationReference("document", "viewer"), DirectRelationReference("folder", "viewer"),
           <<RelationshipEdge(TupleToUsersetEdge, DirectRelationReference("document", "viewer"), DirectRelationReference("document", "parent"), RequiresFurtherEvalCondition)>>),
      EdgeCase("ttu_with_indirect",
           Model11(<<TypeDefinition("user", NoRelations),
                    TypeDefinition("repo",
                  [admin |-> Rel(Union(<<This, TupleToUserset("owner", "repo_admin")>>), <<DirectRelationReference("user", "")>>),
                   owner |-> Rel(This, <<DirectRelationReference("organization", "")>>)]),
                    TypeDefinition("organization",
                  [member |-> Rel(Union(<<This, ComputedUserset("owner")>>), <<DirectRelationReference("user", "")>>),
                   owner |-> Rel(This, <<DirectRelationReference("user", "")>>),
                   repo_admin |-> Rel(This, <<DirectRelationReference("user", ""), DirectRelationReference("organization", "member")>>)])>>),
           DirectRelationReference("repo", "admin"), DirectRelationReference("organization", "member"),
           <<RelationshipEdge(DirectEdge, DirectRelationReference("organization", "repo_admin"), NoReference, NoFurtherEvalCondition)>>) }

TestRelationshipEdges ==
    { EdgeCase("direct_edge_through_ComputedUserset_with_multiple_type_restrictions",
           Model11(<<TypeDefinition("user", NoRelations),
                    TypeDefinition("group",
                  [member |-> Rel(This, <<DirectRelationReference("user", ""), DirectRelationReference("group", "member")>>)]),
                    TypeDefinition("document",
                  [editor |-> Rel(This, <<DirectRelationReference("user", ""), DirectRelationReference("group", "member")>>),
                   viewer |-> Rel(ComputedUserset("editor"), <<>>)])>>),
           DirectRelationReference("document", "viewer"), DirectRelationReference("user", ""),
           <<RelationshipEdge(DirectEdge, DirectRelationReference("document", "editor"), NoReference, NoFurtherEvalCondition),
             RelationshipEdge(DirectEdge, DirectRelationReference("group", "member"), NoReference, NoFurtherEvalCondition)>>),
      EdgeCase("direct_edge_through_ComputedUserset",
           Model11(<<TypeDefinition("user", NoRelations),
                    TypeDefinition("document",
                  [editor |-> Rel(This, <<DirectRelationReference("user", "")>>),
                   viewer |-> Rel(ComputedUserset("editor"), <<>>)])>>),
           DirectRelationReference("document", "viewer"), DirectRelationReference("user", ""),
           <<RelationshipEdge(DirectEdge, DirectRelationReference("document", "editor"), NoReference, NoFurtherEvalCondition)>>),
      EdgeCase("direct_edge_through_TupleToUserset_with_multiple_type_restrictions",
           Model11(<<TypeDefinition("user", NoRelations),
                    TypeDefinition("group",
                  [member |-> Rel(This, <<DirectRelationReference("user", "")>>)]),
                    TypeDefinition("folder",
                  [viewer |-> Rel(This, <<DirectRelationReference("user", ""), DirectRelationReference("group", "member")>>)]),
                    TypeDefinition("document",
                  [parent |-> Rel(This, <<DirectRelationReference("folder", "")>>),
                   viewer |-> Rel(Union(<<This, TupleToUserset("parent", "viewer")>>), <<DirectRelationReference("user", "")>>)])>>),
           DirectRelationReference("document", "viewer"), DirectRelationReference("user", ""),
           <<RelationshipEdge(DirectEdge, DirectRelationReference("document", "viewer"), NoReference, NoFurtherEvalCondition),
             RelationshipEdge(DirectEdge, DirectRelationReference("folder", "viewer"), NoReference, NoFurtherEvalCondition),
             RelationshipEdge(DirectEdge, DirectRelationReference("group", "member"), NoReference, NoFurtherEvalCondition)>>),
      EdgeCase("direct_edge_with_union_involving_self_and_computed_userset",
           Model11(<<TypeDefinition("user", NoRelations),
                    TypeDefinition("group",
                  [member |-> Rel(This, <<DirectRelationReference("user", ""), DirectRelationReference("group", "member")>>)]),
                    TypeDefinition("document",
                  [editor |-> Rel(This, <<DirectRelationReference("user", ""), DirectRelationReference("group", "member")>>),
                   viewer |-> Rel(Union(<<This, ComputedUserset("editor")>>), <<DirectRelationReference("user", "")>>)])>>),
           DirectRelationReference("document", "viewer"), DirectRelationReference("user", ""),
           <<RelationshipEdge(DirectEdge, DirectRelationReference("document", "viewer"), NoReference, NoFurtherEvalCondition),
             RelationshipEdge(DirectEdge, DirectRelationReference("document", "editor"), NoReference, NoFurtherEvalCondition),
             RelationshipEdge(DirectEdge, DirectRelationReference("group", "member"), NoReference, NoFurtherEvalCondition)>>),
      EdgeCase("circular_reference",
           Model11(<<TypeDefinition("user", NoRelations),
                    TypeDefinition("team",
                  [member |-> Rel(This, <<DirectRelationReference("group", "member")>>)]),
                    TypeDefinition("group",
                  [member |-> Rel(This, <<DirectRelationReference("user", ""), DirectRelationReference("team", "member")>>)])>>),
           DirectRelationReference("team", "member"), DirectRelationReference("user", ""),
           <<RelationshipEdge(DirectEdge, DirectRelationReference("group", "member"), NoReference, NoFurtherEvalCondition)>>),
      EdgeCase("cyclical_parent/child_definition",
           Model11(<<TypeDefinition("user", NoRelations),
                    TypeDefinition("folder",
                  [parent |-> Rel(This, <<DirectRelationReference("folder", "")>>),
                   viewer |-> Rel(Union(<<This, TupleToUserset("parent", "viewer")>>), <<DirectRelationReference("user", "")>>)])>>),
           DirectRelationReference("folder", "viewer"), DirectRelationReference("user", ""),
           <<RelationshipEdge(DirectEdge, DirectRelationReference("folder", "viewer"), NoReference, NoFurtherEvalCondition)>>),
      EdgeCase("no_graph_relationship_connectivity",
           Model11(<<TypeDefinition("user", NoRelations),
                    TypeDefinition("team",
                  [member |-> Rel(This, <<DirectRelationReference("team", "member")>>)])>>),
           DirectRelationReference("team", "member"), DirectRelationReference("user", ""),
           <<>>),
      EdgeCase("test1",
           Model11(<<TypeDefinition("user", NoRelations),
                    TypeDefinition("group",
                  [member |-> Rel(This, <<DirectRelationReference("user", "")>>)]),
                    TypeDefinition("folder",
                  [viewer |-> Rel(This, <<DirectRelationReference("user", ""), DirectRelationReference("group", "member")>>)]),
                    TypeDefinition("document",
                  [parent |-> Rel(This, <<DirectRelationReference("folder", "")>>),
                   viewer |-> Rel(TupleToUserset("parent", "viewer"), <<>>)])>>),
           DirectRelationReference("document", "viewer"), DirectRelationReference("user", ""),
           <<RelationshipEdge(DirectEdge, DirectRelationReference("folder", "viewer"), NoReference, NoFurtherEvalCondition),
             RelationshipEdge(DirectEdge, DirectRelationReference("group", "member"), NoReference, NoFurtherEvalCondition)>>),
      EdgeCase("test2",
           Model11(<<TypeDefinition("user", NoRelations),
                    TypeDefinition("group",
                  [member |-> Rel(This, <<DirectRelationReference("user", "")>>)]),
                    TypeDefinition("folder",
                  [viewer |-> Rel(This, <<DirectRelationReference("user", ""), DirectRelationReference("group", "member")>>)]),
                    TypeDefinition("document",
                  [parent |-> Rel(This, <<DirectRelationReference("folder", "")>>),
                   viewer |-> Rel(TupleToUserset("parent", "viewer"), <<>>)])>>),
           DirectRelationReference("document", "viewer"), DirectRelationReference("group", "member"),
           <<RelationshipEdge(DirectEdge, DirectRelationReference("folder", "viewer"), NoReference, NoFurtherEvalCondition)>>),
      EdgeCase("test3",
           Model11(<<TypeDefinition("user", NoRelations),
                    TypeDefinition("folder",
                  [viewer |-> Rel(This, <<DirectRelationReference("user", "")>>)]),
                    TypeDefinition("document",
                  [parent |-> Rel(This, <<DirectRelationReference("folder", "")>>),
                   viewer |-> Rel(TupleToUserset("parent", "viewer"), <<>>)])>>),
           DirectRelationReference("document", "viewer"), DirectRelationReference("folder", "viewer"),
           <<RelationshipEdge(TupleToUsersetEdge, DirectRelationReference("document", "viewer"), DirectRelationReference("document", "parent"), NoFurtherEvalCondition)>>),
      EdgeCase("undefined_relation_on_one_type_involved_in_a_ttu",
           Model11(<<TypeDefinition("user", NoRelations),
                    TypeDefinition("organization", NoRelations),
                    TypeDefinition("folder",
                  [viewer |-> Rel(This, <<DirectRelationReference("user", "")>>)]),
                    TypeDefinition("document",
                  [parent |-> Rel(This, <<DirectRelationReference("folder", ""), DirectRelationReference("organization", "")>>),
                   viewer |-> Rel(TupleToUserset("parent", "viewer"), <<>>)])>>),
           DirectRelationReference("document", "viewer"), DirectRelationReference("user", ""),
           <<RelationshipEdge(DirectEdge, DirectRelationReference("folder", "viewer"), NoReference, NoFurtherEvalCondition)>>),
      EdgeCase("nested_group_membership_returns_only_top-level_edge",
           Model11(<<TypeDefinition("user", NoRelations),
                    TypeDefinition("group",
                  [member |-> Rel(This, <<DirectRelationReference("user", ""), DirectRelationReference("group", "member")>>)])>>),
           DirectRelationReference("group", "member"), DirectRelationReference("user", ""),
           <<RelationshipEdge(DirectEdge, DirectRelationReference("group", "member"), NoReference, NoFurtherEvalCondition)>>),
      EdgeCase("edges_for_non-assignable_relation",
           Model11(<<TypeDefinition("organization",
                  [viewer |-> Rel(This, <<DirectRelationReference("organization", "")>>),
                   can_view |-> Rel(ComputedUserset("viewer"), <<>>)]),
                    TypeDefinition("document",
                  [parent |-> Rel(This, <<DirectRelationReference("organization", "")>>),
                   view |-> Rel(TupleToUserset("parent", "can_view"), <<>>)])>>),
           DirectRelationReference("document", "view"), DirectRelationReference("organization", ""),
           <<RelationshipEdge(DirectEdge, DirectRelationReference("organization", "viewer"), NoReference, NoFurtherEvalCondition)>>),
      EdgeCase("user_is_a_subset_of_user_*",
           Model11(<<TypeDefinition("user", NoRelations),
                    TypeDefinition("document",
                  [viewer |-> Rel(This, <<WildcardRelationReference("user")>>)])>>),
           DirectRelationReference("document", "viewer"), DirectRelationReference("user", ""),
           <<RelationshipEdge(DirectEdge, DirectRelationReference("document", "viewer"), NoReference, NoFurtherEvalCondition)>>),
      EdgeCase("user_*_is_not_a_subset_of_user",
           Model11(<<TypeDefinition("user", NoRelations),
                    TypeDefinition("document",
                  [viewer |-> Rel(This, <<DirectRelationReference("user", "")>>)])>>),
           DirectRelationReference("document", "viewer"), WildcardRelationReference("user"),
           <<>>),
      EdgeCase("user_*_is_related_to_user_*",
           Model11(<<TypeDefinition("user", NoRelations),
                    TypeDefinition("document",
                  [viewer |-> Rel(This, <<WildcardRelationReference("user")>>)])>>),
           DirectRelationReference("document", "viewer"), WildcardRelationReference("user"),
           <<RelationshipEdge(DirectEdge, DirectRelationReference("document", "viewer"), NoReference, NoFurtherEvalCondition)>>),
      EdgeCase("edges_involving_wildcard_in_types",
           Model11(<<TypeDefinition("user", NoRelations),
                    TypeDefinition("document",
                  [editor |-> Rel(This, <<WildcardRelationReference("user")>>),
                   viewer |-> Rel(ComputedUserset("editor"), <<>>)])>>),
           DirectRelationReference("document", "viewer"), DirectRelationReference("user", ""),
           <<RelationshipEdge(DirectEdge, DirectRelationReference("document", "editor"), NoReference, NoFurtherEvalCondition)>>),
      EdgeCase("edges_involving_wildcard_in_source",
           Model11(<<TypeDefinition("user", NoRelations),
                    TypeDefinition("document",
                  [editor |-> Rel(This, <<DirectRelationReference("user", "")>>),
                   viewer |-> Rel(ComputedUserset("editor"), <<>>)])>>),
           DirectRelationReference("document", "viewer"), WildcardRelationReference("user"),
           <<>>),
      EdgeCase("edges_involving_wildcards_1",
           Model11(<<TypeDefinition("user", NoRelations),
                    TypeDefinition("employee", NoRelations),
                    TypeDefinition("group", NoRelations),
                    TypeDefinition("document",
                  [relation1 |-> Rel(Union(<<This, ComputedUserset("relation2"), ComputedUserset("relation3"), ComputedUserset("relation4")>>), <<WildcardRelationReference("user")>>),
                   relation2 |-> Rel(This, <<WildcardRelationReference("group")>>),
                   relation3 |-> Rel(This, <<WildcardRelationReference("employee")>>),
                   relation4 |-> Rel(This, <<DirectRelationReference("user", "")>>)])>>),
           DirectRelationReference("document", "relation1"), DirectRelationReference("user", ""),
           <<RelationshipEdge(DirectEdge, DirectRelationReference("document", "relation1"), NoReference, NoFurtherEvalCondition),
             RelationshipEdge(DirectEdge, DirectRelationReference("document", "relation4"), NoReference, NoFurtherEvalCondition)>>),
      EdgeCase("edges_involving_wildcards_2",
           Model11(<<TypeDefinition("user", NoRelations),
                    TypeDefinition("document",
                  [relation1 |-> Rel(Union(<<This, ComputedUserset("relation2")>>), <<DirectRelationReference("user", "")>>),
                   relation2 |-> Rel(This, <<WildcardRelationReference("user")>>)])>>),
           DirectRelationReference("document", "relation1"), WildcardRelationReference("user"),
           <<RelationshipEdge(DirectEdge, DirectRelationReference("document", "relation2"), NoReference, NoFurtherEvalCondition)>>),
      EdgeCase("indirect_typed_wildcard",
           Model11(<<TypeDefinition("user", NoRelations),
                    TypeDefinition("group",
                  [member |-> Rel(This, <<WildcardRelationReference("user")>>)]),
                    TypeDefinition("document",
                  [viewer |-> Rel(This, <<DirectRelationReference("group", "member")>>)])>>),
           DirectRelationReference("document", "viewer"), DirectRelationReference("user", ""),
           <<RelationshipEdge(DirectEdge, DirectRelationReference("group", "member"), NoReference, NoFurtherEvalCondition)>>),
      EdgeCase("indirect_relationship_multiple_levels_deep",
           Model11(<<TypeDefinition("user", NoRelations),
                    TypeDefinition("team",
                  [member |-> Rel(This, <<DirectRelationReference("user", "")>>)]),
                    TypeDefinition("group",
                  [member |-> Rel(This, <<DirectRelationReference("user", ""), DirectRelationReference("team", "member")>>)]),
                    TypeDefinition("document",
                  [viewer |-> Rel(This, <<WildcardRelationReference("user"), DirectRelationReference("group", "member")>>)])>>),
           DirectRelationReference("document", "viewer"), DirectRelationReference("user", ""),
           <<RelationshipEdge(DirectEdge, DirectRelationReference("document", "viewer"), NoReference, NoFurtherEvalCondition),
             RelationshipEdge(DirectEdge, DirectRelationReference("group", "member"), NoReference, NoFurtherEvalCondition),
             RelationshipEdge(DirectEdge, DirectRelationReference("team", "member"), NoReference, NoFurtherEvalCondition)>>),
      EdgeCase("indirect_relationship_multiple_levels_deep_no_connectivity",
           Model11(<<TypeDefinition("user", NoRelations),
                    TypeDefinition("employee", NoRelations),
                    TypeDefinition("team",
                  [member |-> Rel(This, <<DirectRelationReference("employee", "")>>)]),
                    TypeDefinition("group",
                  [member |-> Rel(This, <<DirectRelationReference("team", "member")>>)]),
                    TypeDefinition("document",
                  [viewer |-> Rel(This, <<DirectRelationReference("group", "member")>>)])>>),
           DirectRelationReference("document", "viewer"), DirectRelationReference("user", ""),
           <<>>),
      EdgeCase("edge_through_ttu_on_non-assignable_relation",
           Model11(<<TypeDefinition("organization",
                  [viewer |-> Rel(This, <<DirectRelationReference("organization", "")>>),
                   can_view |-> Rel(ComputedUserset("viewer"), <<>>)]),
                    TypeDefinition("document",
                  [parent |-> Rel(This, <<DirectRelationReference("organization", "")>>),
                   view |-> Rel(TupleToUserset("parent", "can_view"), <<>>)])>>),
           DirectRelationReference("document", "view"), DirectRelationReference("organization", "can_view"),
           <<RelationshipEdge(TupleToUsersetEdge, DirectRelationReference("document", "view"), DirectRelationReference("document", "parent"), NoFurtherEvalCondition)>>),
      EdgeCase("indirect_relation_through_ttu_on_non-assignable_relation",
           Model11(<<TypeDefinition("organization",
                  [viewer |-> Rel(This, <<DirectRelationReference("organization", "")>>),
                   can_view |-> Rel(ComputedUserset("viewer"), <<>>)]),
                    TypeDefinition("document",
                  [parent |-> Rel(This, <<DirectRelationReference("organization", "")>>),
                   view |-> Rel(TupleToUserset("parent", "can_view"), <<>>)])>>),
           DirectRelationReference("document", "view"), DirectRelationReference("organization", "viewer"),
           <<RelationshipEdge(ComputedUsersetEdge, DirectRelationReference("organization", "can_view"), NoReference, NoFurtherEvalCondition)>>),
      EdgeCase("ttu_on_non-assignable_relation",
           Model11(<<TypeDefinition("organization",
                  [viewer |-> Rel(This, <<DirectRelationReference("organization", "")>>),
                   can_view |-> Rel(ComputedUserset("viewer"), <<>>)]),
                    TypeDefinition("document",
                  [parent |-> Rel(This, <<DirectRelationReference("organization", "")>>),
                   view |-> Rel(TupleToUserset("parent", "can_view"), <<>>)])>>),
           DirectRelationReference("document", "view"), DirectRelationReference("organization", "can_view"),
           <<RelationshipEdge(TupleToUsersetEdge, DirectRelationReference("document", "view"), DirectRelationReference("document", "parent"), NoFurtherEvalCondition)>>),
      EdgeCase("multiple_indirect_non-assignable_relations_through_ttu",
           Model11(<<TypeDefinition("organization",
                  [viewer |-> Rel(This, <<DirectRelationReference("organization", "")>>),
                   view |-> Rel(ComputedUserset("viewer"), <<>>)]),
                    TypeDefinition("folder",
                  [parent |-> Rel(This, <<DirectRelationReference("organization", "")>>),
                   view |-> Rel(TupleToUserset("parent", "view"), <<>>)]),
                    TypeDefinition("other", NoRelations),
                    TypeDefinition("document",
                  [parent |-> Rel(This, <<DirectRelationReference("folder", ""), DirectRelationReference("other", "")>>),
                   view |-> Rel(TupleToUserset("parent", "view"), <<>>)])>>),
           DirectRelationReference("document", "view"), DirectRelationReference("organization", ""),
           <<RelationshipEdge(DirectEdge, DirectRelationReference("organization", "viewer"), NoReference, NoFurtherEvalCondition)>>),
      EdgeCase("multiple_directly_assignable_relationships_through_unions",
           Model11(<<TypeDefinition("user", NoRelations),
                    TypeDefinition("team",
                  [admin |-> Rel(This, <<DirectRelationReference("user", "")>>),
                   member |-> Rel(Union(<<This, ComputedUserset("admin")>>), <<DirectRelationReference("user", ""), DirectRelationReference("team", "member")>>)]),
                    TypeDefinition("trial",
                  [editor |-> Rel(Union(<<This, ComputedUserset("owner")>>), <<DirectRelationReference("user", ""), DirectRelationReference("team", "member")>>),
                   owner |-> Rel(This, <<DirectRelationReference("user", "")>>),
                   viewer |-> Rel(Union(<<This, ComputedUserset("editor")>>), <<DirectRelationReference("user", ""), DirectRelationReference("team", "member")>>)])>>),
           DirectRelationReference("trial", "viewer"), DirectRelationReference("user", ""),
           <<RelationshipEdge(DirectEdge, DirectRelationReference("trial", "viewer"), NoReference, NoFurtherEvalCondition),
             RelationshipEdge(DirectEdge, DirectRelationReference("trial", "editor"), NoReference, NoFurtherEvalCondition),
             RelationshipEdge(DirectEdge, DirectRelationReference("trial", "owner"), NoReference, NoFurtherEvalCondition),
             RelationshipEdge(DirectEdge, DirectRelationReference("team", "member"), NoReference, NoFurtherEvalCondition),
             RelationshipEdge(DirectEdge, DirectRelationReference("team", "admin"), NoReference, NoFurtherEvalCondition)>>),
      EdgeCase("multiple_assignable_and_non-assignable_computed_usersets",
           Model11(<<TypeDefinition("user", NoRelations),
                    TypeDefinition("team",
                  [admin |-> Rel(This, <<DirectRelationReference("user", "")>>),
                   member |-> Rel(Union(<<This, ComputedUserset("admin")>>), <<DirectRelationReference("user", ""), DirectRelationReference("team", "member")>>)]),
                    TypeDefinition("trial",
                  [editor |-> Rel(Union(<<This, ComputedUserset("owner")>>), <<DirectRelationReference("user", ""), DirectRelationReference("team", "member")>>),
                   owner |-> Rel(This, <<DirectRelationReference("user", "")>>),
                   viewer |-> Rel(Union(<<This, ComputedUserset("editor")>>), <<DirectRelationReference("user", ""), DirectRelationReference("team", "member")>>)])>>),
           DirectRelationReference("trial", "viewer"), DirectRelationReference("team", "admin"),
           <<RelationshipEdge(ComputedUsersetEdge, DirectRelationReference("team", "member"), NoReference, NoFurtherEvalCondition)>>),
      EdgeCase("indirect_relationship_through_assignable_computed_userset",
           Model11(<<TypeDefinition("user", NoRelations),
                    TypeDefinition("team",
                  [admin |-> Rel(This, <<DirectRelationReference("user", "")>>),
                   member |-> Rel(Union(<<This, ComputedUserset("admin")>>), <<DirectRelationReference("team", "member")>>)])>>),
           DirectRelationReference("team", "member"), DirectRelationReference("team", "admin"),
           <<RelationshipEdge(ComputedUsersetEdge, DirectRelationReference("team", "member"), NoReference, NoFurtherEvalCondition)>>),
      EdgeCase("indirect_relationship_through_non-assignable_computed_userset",
           Model11(<<TypeDefinition("user", NoRelations),
                    TypeDefinition("group",
                  [manager |-> Rel(This, <<DirectRelationReference("user", "")>>),
                   member |-> Rel(ComputedUserset("manager"), <<>>)]),
                    TypeDefinition("document",
                  [viewer |-> Rel(This, <<DirectRelationReference("group", "member")>>)])>>),
           DirectRelationReference("document", "viewer"), DirectRelationReference("group", "manager"),
           <<RelationshipEdge(ComputedUsersetEdge, DirectRelationReference("group", "member"), NoReference, NoFurtherEvalCondition)>>),
      EdgeCase("indirect_relationship_through_non-assignable_ttu_1",
           Model11(<<TypeDefinition("user", NoRelations),
                    TypeDefinition("org",
                  [dept |-> Rel(This, <<DirectRelationReference("group", "")>>),
                   dept_member |-> Rel(TupleToUserset("dept", "member"), <<>>)]),
                    TypeDefinition("group",
                  [member |-> Rel(This, <<DirectRelationReference("user", "")>>)]),
                    TypeDefinition("resource",
                  [writer |-> Rel(This, <<DirectRelationReference("org", "dept_member")>>)])>>),
           DirectRelationReference("resource", "writer"), DirectRelationReference("user", ""),
           <<RelationshipEdge(DirectEdge, DirectRelationReference("group", "member"), NoReference, NoFurtherEvalCondition)>>),
      EdgeCase("indirect_relationship_through_non-assignable_ttu_2",
           Model11(<<TypeDefinition("user", NoRelations),
                    TypeDefinition("org",
                  [dept |-> Rel(This, <<DirectRelationReference("group", "")>>),
                   dept_member |-> Rel(TupleToUserset("dept", "member"), <<>>)]),
                    TypeDefinition("group",
                  [member |-> Rel(This, <<DirectRelationReference("user", "")>>)]),
                    TypeDefinition("resource",
                  [writer |-> Rel(This, <<DirectRelationReference("org", "dept_member")>>)])>>),
           DirectRelationReference("resource", "writer"), DirectRelationReference("group", "member"),
           <<RelationshipEdge(TupleToUsersetEdge, DirectRelationReference("org", "dept_member"), DirectRelationReference("org", "dept"), NoFurtherEvalCondition)>>),
      EdgeCase("indirect_relationship_through_non-assignable_ttu_3",
           Model11(<<TypeDefinition("user", NoRelations),
                    TypeDefinition("org",
                  [dept |-> Rel(This, <<DirectRelationReference("group", "")>>),
                   dept_member |-> Rel(TupleToUserset("dept", "member"), <<>>)]),
                    TypeDefinition("group",
                  [member |-> Rel(This, <<DirectRelationReference("user", "")>>)]),
                    TypeDefinition("resource",
                  [writer |-> Rel(This, <<DirectRelationReference("org", "dept_member")>>)])>>),
           DirectRelationReference("resource", "writer"), DirectRelationReference("org", "dept_member"),
           <<RelationshipEdge(DirectEdge, DirectRelationReference("resource", "writer"), NoReference, NoFurtherEvalCondition)>>),
      EdgeCase("unrelated_source_and_target_relationship_involving_ttu",
           Model11(<<TypeDefinition("user", NoRelations),
                    TypeDefinition("folder",
                  [viewer |-> Rel(This, <<DirectRelationReference("user", "")>>)]),
                    TypeDefinition("document",
                  [can_read |-> Rel(TupleToUserset("parent", "viewer"), <<>>),
                   parent |-> Rel(This, <<DirectRelationReference("document", ""), DirectRelationReference("folder", "")>>),
                   viewer |-> Rel(This, <<DirectRelationReference("user", "")>>)])>>),
           DirectRelationReference("document", "can_read"), DirectRelationReference("document", ""),
           <<>>),
      EdgeCase("simple_computeduserset_indirect_ref",
           Model11(<<TypeDefinition("user", NoRelations),
                    TypeDefinition("document",
                  [parent |-> Rel(This, <<DirectRelationReference("document", "")>>),
                   viewer |-> Rel(Union(<<This, TupleToUserset("parent", "viewer")>>), <<DirectRelationReference("user", "")>>),
                   can_view |-> Rel(ComputedUserset("viewer"), <<>>)])>>),
           DirectRelationReference("document", "can_view"), DirectRelationReference("document", "viewer"),
           <<RelationshipEdge(ComputedUsersetEdge, DirectRelationReference("document", "can_view"), NoReference, NoFurtherEvalCondition),
             RelationshipEdge(TupleToUsersetEdge, DirectRelationReference("document", "viewer"), DirectRelationReference("document", "parent"), NoFurtherEvalCondition)>>),
      EdgeCase("follow_computed_relation_of_ttu_to_computed_userset",
           Model11(<<TypeDefinition("user", NoRelations),
                    TypeDefinition("folder",
                  [owner |-> Rel(This, <<DirectRelationReference("user", "")>>),
                   viewer |-> Rel(Union(<<This, ComputedUserset("owner")>>), <<DirectRelationReference("user", "")>>)]),
                    TypeDefinition("document",
                  [can_read |-> Rel(TupleToUserset("parent", "viewer"), <<>>),
                   parent |-> Rel(This, <<DirectRelationReference("document", ""), DirectRelationReference("folder", "")>>),
                   viewer |-> Rel(This, <<DirectRelationReference("user", "")>>)])>>),
           DirectRelationReference("document", "can_read"), DirectRelationReference("folder", "owner"),
           <<RelationshipEdge(ComputedUsersetEdge, DirectRelationReference("folder", "viewer"), NoReference, NoFurtherEvalCondition)>>),
      EdgeCase("computed_target_of_ttu_related_to_same_type",
           Model11(<<TypeDefinition("folder",
                  [viewer |-> Rel(This, <<DirectRelationReference("folder", "")>>)]),
                    TypeDefinition("document",
                  [parent |-> Rel(This, <<DirectRelationReference("folder", "")>>),
                   viewer |-> Rel(TupleToUserset("parent", "viewer"), <<>>)])>>),
           DirectRelationReference("document", "viewer"), DirectRelationReference("folder", "viewer"),
           <<RelationshipEdge(TupleToUsersetEdge, DirectRelationReference("document", "viewer"), DirectRelationReference("document", "parent"), NoFurtherEvalCondition)>>),
      EdgeCase("basic_relation_with_intersection_1",
           Model11(<<TypeDefinition("user", NoRelations),
                    TypeDefinition("document",
                  [allowed |-> Rel(This, <<DirectRelationReference("user", "")>>),
                   viewer |-> Rel(Intersection(<<This, ComputedUserset("allowed")>>), <<DirectRelationReference("user", "")>>)])>>),
           DirectRelationReference("document", "viewer"), DirectRelationReference("user", ""),
           <<RelationshipEdge(DirectEdge, DirectRelationReference("document", "viewer"), NoReference, RequiresFurtherEvalCondition),
             RelationshipEdge(DirectEdge, DirectRelationReference("document", "allowed"), NoReference, NoFurtherEvalCondition)>>),
      EdgeCase("basic_relation_with_intersection_2",
           Model11(<<TypeDefinition("user", NoRelations),
                    TypeDefinition("document",
                  [allowed |-> Rel(This, <<DirectRelationReference("user", "")>>),
                   editor |-> Rel(This, <<DirectRelationReference("user", "")>>),
                   viewer |-> Rel(Intersection(<<ComputedUserset("editor"), ComputedUserset("allowed")>>), <<>>)])>>),
           DirectRelationReference("document", "viewer"), DirectRelationReference("user", ""),
           <<RelationshipEdge(DirectEdge, DirectRelationReference("document", "editor"), NoReference, RequiresFurtherEvalCondition),
             RelationshipEdge(DirectEdge, DirectRelationReference("document", "allowed"), NoReference, NoFurtherEvalCondition)>>),
      EdgeCase("basic_relation_with_intersection_3",
           Model11(<<TypeDefinition("user", NoRelations),
                    TypeDefinition("document",
                  [allowed |-> Rel(This, <<DirectRelationReference("user", "")>>),
                   editor |-> Rel(This, <<DirectRelationReference("user", "")>>),
                   viewer |-> Rel(Intersection(<<ComputedUserset("allowed"), This>>), <<DirectRelationReference("user", "")>>)])>>),
           DirectRelationReference("document", "viewer"), DirectRelationReference("user", ""),
           <<RelationshipEdge(DirectEdge, DirectRelationReference("document", "allowed"), NoReference, RequiresFurtherEvalCondition),
             RelationshipEdge(DirectEdge, DirectRelationReference("document", "viewer"), NoReference, NoFurtherEvalCondition)>>),
      EdgeCase("basic_relation_with_exclusion_1",
           Model11(<<TypeDefinition("user", NoRelations),
                    TypeDefinition("document",
                  [restricted |-> Rel(This, <<DirectRelationReference("user", "")>>),
                   viewer |-> Rel(Difference(This, ComputedUserset("restricted")), <<DirectRelationReference("user", "")>>)])>>),
           DirectRelationReference("document", "viewer"), DirectRelationReference("user", ""),
           <<RelationshipEdge(DirectEdge, DirectRelationReference("document", "viewer"), NoReference, RequiresFurtherEvalCondition),
             RelationshipEdge(DirectEdge, DirectRelationReference("document", "restricted"), NoReference, NoFurtherEvalCondition)>>),
      EdgeCase("basic_relation_with_exclusion_2",
           Model11(<<TypeDefinition("user", NoRelations),
                    TypeDefinition("document",
                  [restricted |-> Rel(This, <<DirectRelationReference("user", "")>>),
                   editor |-> Rel(This, <<DirectRelationReference("user", "")>>),
                   viewer |-> Rel(Difference(ComputedUserset("editor"), ComputedUserset("restricted")), <<>>)])>>),
           DirectRelationReference("document", "viewer"), DirectRelationReference("user", ""),
           <<RelationshipEdge(DirectEdge, DirectRelationReference("document", "editor"), NoReference, RequiresFurtherEvalCondition),
             RelationshipEdge(DirectEdge, DirectRelationReference("document", "restricted"), NoReference, NoFurtherEvalCondition)>>),
      EdgeCase("basic_relation_with_exclusion_3",
           Model11(<<TypeDefinition("user", NoRelations),
                    TypeDefinition("document",
                  [allowed |-> Rel(This, <<DirectRelationReference("user", "")>>),
                   viewer |-> Rel(Difference(ComputedUserset("allowed"), This), <<DirectRelationReference("user", "")>>)])>>),
           DirectRelationReference("document", "viewer"), DirectRelationReference("user", ""),
           <<RelationshipEdge(DirectEdge, DirectRelationReference("document", "allowed"), NoReference, RequiresFurtherEvalCondition),
             RelationshipEdge(DirectEdge, DirectRelationReference("document", "viewer"), NoReference, NoFurtherEvalCondition)>>),
      EdgeCase("ttu_through_direct_rewrite_1",
           Model11(<<TypeDefinition("folder",
                  [viewer |-> Rel(This, <<DirectRelationReference("folder", "")>>)]),
                    TypeDefinition("document",
                  [parent |-> Rel(This, <<DirectRelationReference("folder", "")>>),
                   viewer |-> Rel(TupleToUserset("parent", "viewer"), <<>>)])>>),
           DirectRelationReference("document", "viewer"), DirectRelationReference("folder", "viewer"),
           <<RelationshipEdge(TupleToUsersetEdge, DirectRelationReference("document", "viewer"), DirectRelationReference("document", "parent"), NoFurtherEvalCondition)>>),
      EdgeCase("ttu_through_direct_rewrite_2",
           Model11(<<TypeDefinition("folder",
                  [viewer |-> Rel(This, <<DirectRelationReference("folder", "")>>)]),
                    TypeDefinition("document",
                  [parent |-> Rel(This, <<DirectRelationReference("folder", "")>>),
                   viewer |-> Rel(TupleToUserset("parent", "viewer"), <<>>)])>>),
           DirectRelationReference("document", "viewer"), DirectRelationReference("folder", ""),
           <<RelationshipEdge(DirectEdge, DirectRelationReference("folder", "viewer"), NoReference, NoFurtherEvalCondition)>>) }


\* The cases of the boolean queries: a model, what is asked, the answer and
\* the error the test expects.
InvolvesCase(name, m, rr, expected, expectedErr) ==
    [name |-> name, model |-> m, target |-> rr, expected |-> expected, err |-> expectedErr]

TuplesetCase(name, m, objectType, relation, expected, expectedError) ==
    InvolvesCase(name, m, DirectRelationReference(objectType, relation), expected, expectedError)

RelatedCase(name, m, target, source, result) ==
    [name |-> name, model |-> m, target |-> target, source |-> source, expected |-> result]

AssignableCase(name, m, target, objectType, result) ==
    RelatedCase(name, m, target, WildcardRelationReference(objectType), result)

TestRelationInvolvesIntersection ==
    { InvolvesCase("indirect_computeduserset_through_ttu_containing_intersection",
           AuthorizationModel("", <<TypeDefinition("user", NoRelations),
                    TypeDefinition("folder",
                  [manage |-> Rel(This, <<DirectRelationReference("user", "")>>),
                   editor |-> Rel(Intersection(<<This, ComputedUserset("manage")>>), <<DirectRelationReference("user", "")>>)]),
                    TypeDefinition("document",
                  [parent |-> Rel(This, <<DirectRelationReference("folder", "")>>),
                   editor |-> Rel(TupleToUserset("parent", "editor"), <<>>),
                   viewer |-> Rel(ComputedUserset("editor"), <<>>)])>>),
           DirectRelationReference("document", "viewer"), TRUE, ""),
      InvolvesCase("ttu_relations_containing_intersection",
           AuthorizationModel("", <<TypeDefinition("user", NoRelations),
                    TypeDefinition("folder",
                  [editor |-> Rel(This, <<DirectRelationReference("user", "")>>),
                   viewer |-> Rel(Intersection(<<This, ComputedUserset("editor")>>), <<DirectRelationReference("user", "")>>)]),
                    TypeDefinition("document",
                  [parent |-> Rel(This, <<DirectRelationReference("folder", "")>>),
                   viewer |-> Rel(TupleToUserset("parent", "viewer"), <<>>)])>>),
           DirectRelationReference("document", "viewer"), TRUE, ""),
      InvolvesCase("indirect_relations_containing_intersection",
           AuthorizationModel("", <<TypeDefinition("user", NoRelations),
                    TypeDefinition("document",
                  [editor |-> Rel(This, <<DirectRelationReference("user", "")>>),
                   viewer |-> Rel(Intersection(<<This, ComputedUserset("editor")>>), <<DirectRelationReference("user", "")>>)])>>),
           DirectRelationReference("document", "viewer"), TRUE, ""),
      InvolvesCase("undefined_type",
           AuthorizationModel("", <<TypeDefinition("user", NoRelations)>>),
           DirectRelationReference("document", "viewer"), FALSE, "ErrObjectTypeUndefined"),
      InvolvesCase("undefined_relation",
           AuthorizationModel("", <<TypeDefinition("user", NoRelations)>>),
           DirectRelationReference("user", "viewer"), FALSE, "ErrRelationUndefined"),
      InvolvesCase("non-assignable_indirect_type_restriction_involving_intersection",
           AuthorizationModel("", <<TypeDefinition("user", NoRelations),
                    TypeDefinition("org",
                  [allowed |-> Rel(This, <<DirectRelationReference("user", "")>>),
                   dept |-> Rel(This, <<DirectRelationReference("group", "")>>),
                   dept_member |-> Rel(TupleToUserset("dept", "member"), <<>>),
                   dept_allowed_member |-> Rel(Intersection(<<ComputedUserset("dept_member"), ComputedUserset("allowed")>>), <<>>)]),
                    TypeDefinition("resource",
                  [reader |-> Rel(Union(<<This, ComputedUserset("writer")>>), <<DirectRelationReference("user", "")>>),
                   writer |-> Rel(This, <<DirectRelationReference("org", "dept_allowed_member")>>)])>>),
           DirectRelationReference("resource", "reader"), TRUE, ""),
      InvolvesCase("indirect_relationship_through_type_restriction",
           AuthorizationModel("", <<TypeDefinition("user", NoRelations),
                    TypeDefinition("document",
                  [allowed |-> Rel(This, <<DirectRelationReference("user", "")>>),
                   editor |-> Rel(Intersection(<<This, ComputedUserset("allowed")>>), <<DirectRelationReference("user", "")>>),
                   viewer |-> Rel(This, <<DirectRelationReference("document", "editor")>>)])>>),
           DirectRelationReference("document", "viewer"), TRUE, ""),
      InvolvesCase("github_model",
           AuthorizationModel("", <<TypeDefinition("user", NoRelations),
                    TypeDefinition("organization",
                  [member |-> Rel(Union(<<This, ComputedUserset("owner")>>), <<DirectRelationReference("user", "")>>),
                   owner |-> Rel(This, <<DirectRelationReference("user", "")>>),
                   repo_admin |-> Rel(This, <<DirectRelationReference("user", ""), DirectRelationReference("organization", "member")>>),
                   repo_reader |-> Rel(This, <<DirectRelationReference("user", ""), DirectRelationReference("organization", "member")>>),
                   repo_writer |-> Rel(This, <<DirectRelationReference("user", ""), DirectRelationReference("organization", "member")>>)]),
                    TypeDefinition("team",
                  [member |-> Rel(This, <<DirectRelationReference("user", ""), DirectRelationReference("team", "member")>>)]),
                    TypeDefinition("repo",
                  [admin |-> Rel(Union(<<This, TupleToUserset("owner", "repo_admin")>>), <<DirectRelationReference("user", ""), DirectRelationReference("team", "member")>>),
                   maintainer |-> Rel(Union(<<This, ComputedUserset("admin")>>), <<DirectRelationReference("user", ""), DirectRelationReference("team", "member")>>),
                   owner |-> Rel(This, <<DirectRelationReference("organization", "")>>),
                   reader |-> Rel(Union(<<This, ComputedUserset("triager"), TupleToUserset("owner", "repo_reader")>>), <<DirectRelationReference("user", ""), DirectRelationReference("team", "member")>>),
                   triager |-> Rel(Union(<<This, ComputedUserset("writer")>>), <<DirectRelationReference("user", ""), DirectRelationReference("team", "member")>>),
                   writer |-> Rel(Union(<<This, ComputedUserset("maintainer"), TupleToUserset("owner", "repo_writer")>>), <<DirectRelationReference("user", ""), DirectRelationReference("team", "member")>>)])>>),
           DirectRelationReference("repo", "admin"), FALSE, ""),
      InvolvesCase("github_model",
           AuthorizationModel("", <<TypeDefinition("user", NoRelations),
                    TypeDefinition("organization",
                  [member |-> Rel(Union(<<This, ComputedUserset("owner")>>), <<DirectRelationReference("user", "")>>),
                   owner |-> Rel(This, <<DirectRelationReference("user", "")>>),
                   repo_admin |-> Rel(This, <<DirectRelationReference("user", ""), DirectRelationReference("organization", "member")>>),
                   repo_reader |-> Rel(This, <<DirectRelationReference("user", ""), DirectRelationReference("organization", "member")>>),
                   repo_writer |-> Rel(This, <<DirectRelationReference("user", ""), DirectRelationReference("organization", "member")>>)]),
                    TypeDefinition("team",
                  [member |-> Rel(This, <<DirectRelationReference("user", ""), DirectRelationReference("team", "member")>>)]),
                    TypeDefinition("repo",
                  [admin |-> Rel(Union(<<This, TupleToUserset("owner", "repo_admin")>>), <<DirectRelationReference("user", ""), DirectRelationReference("team", "member")>>),
                   maintainer |-> Rel(Union(<<This, ComputedUserset("admin")>>), <<DirectRelationReference("user", ""), DirectRelationReference("team", "member")>>),
                   owner |-> Rel(This, <<DirectRelationReference("organization", "")>>),
                   reader |-> Rel(Union(<<This, ComputedUserset("triager"), TupleToUserset("owner", "repo_reader")>>), <<DirectRelationReference("user", ""), DirectRelationReference("team", "member")>>),
                   triager |-> Rel(Union(<<This, ComputedUserset("writer")>>), <<DirectRelationReference("user", ""), DirectRelationReference("team", "member")>>),
                   writer |-> Rel(Union(<<This, ComputedUserset("maintainer"), TupleToUserset("owner", "repo_writer")>>), <<DirectRelationReference("user", ""), DirectRelationReference("team", "member")>>)])>>),
           DirectRelationReference("repo", "admin"), FALSE, ""),
      InvolvesCase("direct_relations_related_to_each_other",
           AuthorizationModel("", <<TypeDefinition("user", NoRelations),
                    TypeDefinition("example",
                  [editor |-> Rel(This, <<DirectRelationReference("example", "viewer")>>),
                   viewer |-> Rel(This, <<DirectRelationReference("example", "editor")>>)])>>),
           DirectRelationReference("example", "editor"), FALSE, ""),
      InvolvesCase("cyclical_evaluation_of_tupleset",
           AuthorizationModel("", <<TypeDefinition("user", NoRelations),
                    TypeDefinition("node",
                  [parent |-> Rel(This, <<DirectRelationReference("node", "")>>),
                   editor |-> Rel(Union(<<This, TupleToUserset("parent", "editor")>>), <<DirectRelationReference("user", "")>>)])>>),
           DirectRelationReference("node", "editor"), FALSE, ""),
      InvolvesCase("nested_intersection_1",
           AuthorizationModel("", <<TypeDefinition("user", NoRelations),
                    TypeDefinition("folder",
                  [allowed |-> Rel(This, <<DirectRelationReference("user", "")>>),
                   viewer |-> Rel(Intersection(<<This, ComputedUserset("allowed")>>), <<DirectRelationReference("user", "")>>)]),
                    TypeDefinition("document",
                  [parent |-> Rel(This, <<DirectRelationReference("folder", "")>>),
                   viewer |-> Rel(TupleToUserset("parent", "viewer"), <<>>)])>>),
           DirectRelationReference("document", "viewer"), TRUE, "") }

TestRelationInvolvesExclusion ==
    { InvolvesCase("indirect_computed_userset_through_ttu_containing_exclusion",
           AuthorizationModel("", <<TypeDefinition("user", NoRelations),
                    TypeDefinition("folder",
                  [restricted |-> Rel(This, <<DirectRelationReference("user", "")>>),
                   editor |-> Rel(Difference(This, ComputedUserset("restricted")), <<DirectRelationReference("user", "")>>)]),
                    TypeDefinition("document",
                  [parent |-> Rel(This, <<DirectRelationReference("folder", "")>>),
                   editor |-> Rel(TupleToUserset("parent", "editor"), <<>>),
                   viewer |-> Rel(ComputedUserset("editor"), <<>>)])>>),
           DirectRelationReference("document", "viewer"), TRUE, ""),
      InvolvesCase("ttu_relations_containing_exclusion",
           AuthorizationModel("", <<TypeDefinition("user", NoRelations),
                    TypeDefinition("folder",
                  [restricted |-> Rel(This, <<DirectRelationReference("user", "")>>),
                   viewer |-> Rel(Difference(This, ComputedUserset("restricted")), <<DirectRelationReference("user", "")>>)]),
                    TypeDefinition("document",
                  [parent |-> Rel(This, <<DirectRelationReference("folder", "")>>),
                   viewer |-> Rel(TupleToUserset("parent", "viewer"), <<>>)])>>),
           DirectRelationReference("document", "viewer"), TRUE, ""),
      InvolvesCase("indirect_relations_containing_exclusion",
           AuthorizationModel("", <<TypeDefinition("user", NoRelations),
                    TypeDefinition("document",
                  [restricted |-> Rel(This, <<DirectRelationReference("user", "")>>),
                   editor |-> Rel(Difference(This, ComputedUserset("restricted")), <<DirectRelationReference("user", "")>>),
                   viewer |-> Rel(ComputedUserset("editor"), <<>>)])>>),
           DirectRelationReference("document", "viewer"), TRUE, ""),
      InvolvesCase("undefined_type",
           AuthorizationModel("", <<TypeDefinition("user", NoRelations)>>),
           DirectRelationReference("document", "viewer"), FALSE, "ErrObjectTypeUndefined"),
      InvolvesCase("undefined_relation",
           AuthorizationModel("", <<TypeDefinition("user", NoRelations)>>),
           DirectRelationReference("user", "viewer"), FALSE, "ErrRelationUndefined"),
      InvolvesCase("non-assignable_indirect_type_restriction_involving_exclusion",
           AuthorizationModel("", <<TypeDefinition("user", NoRelations),
                    TypeDefinition("org",
                  [removed |-> Rel(This, <<DirectRelationReference("user", "")>>),
                   dept |-> Rel(This, <<DirectRelationReference("group", "")>>),
                   dept_member |-> Rel(TupleToUserset("dept", "member"), <<>>),
                   dept_allowed_member |-> Rel(Difference(ComputedUserset("dept_member"), ComputedUserset("removed")), <<>>)]),
                    TypeDefinition("resource",
                  [reader |-> Rel(Union(<<This, ComputedUserset("writer")>>), <<DirectRelationReference("user", "")>>),
                   writer |-> Rel(This, <<DirectRelationReference("org", "dept_allowed_member")>>)])>>),
           DirectRelationReference("resource", "reader"), TRUE, ""),
      InvolvesCase("indirect_relationship_through_type_restriction",
           AuthorizationModel("", <<TypeDefinition("user", NoRelations),
                    TypeDefinition("document",
                  [restricted |-> Rel(This, <<DirectRelationReference("user", "")>>),
                   editor |-> Rel(Difference(This, ComputedUserset("restricted")), <<DirectRelationReference("user", "")>>),
                   viewer |-> Rel(This, <<DirectRelationReference("document", "editor")>>)])>>),
           DirectRelationReference("document", "viewer"), TRUE, ""),
      InvolvesCase("direct_relations_related_to_each_other",
           AuthorizationModel("", <<TypeDefinition("user", NoRelations),
                    TypeDefinition("example",
                  [editor |-> Rel(This, <<DirectRelationReference("example", "viewer")>>),
                   viewer |-> Rel(This, <<DirectRelationReference("example", "editor")>>)])>>),
           DirectRelationReference("example", "editor"), FALSE, ""),
      InvolvesCase("cyclical_evaluation_of_tupleset",
           AuthorizationModel("", <<TypeDefinition("user", NoRelations),
                    TypeDefinition("node",
                  [parent |-> Rel(This, <<DirectRelationReference("node", "")>>),
                   editor |-> Rel(Union(<<This, TupleToUserset("parent", "editor")>>), <<DirectRelationReference("user", "")>>)])>>),
           DirectRelationReference("node", "editor"), FALSE, "") }

TestIsDirectlyRelated ==
    { RelatedCase("wildcard_and_wildcard",
           Model11(<<TypeDefinition("user", NoRelations),
                    TypeDefinition("document",
                  [viewer |-> Rel(This, <<WildcardRelationReference("user")>>)])>>),
           DirectRelationReference("document", "viewer"), WildcardRelationReference("user"), TRUE),
      RelatedCase("wildcard_and_direct",
           Model11(<<TypeDefinition("user", NoRelations),
                    TypeDefinition("document",
                  [viewer |-> Rel(This, <<WildcardRelationReference("user")>>)])>>),
           DirectRelationReference("document", "viewer"), DirectRelationReference("user", ""), FALSE),
      RelatedCase("direct_and_wildcard",
           Model11(<<TypeDefinition("user", NoRelations),
                    TypeDefinition("document",
                  [viewer |-> Rel(This, <<DirectRelationReference("user", "")>>)])>>),
           DirectRelationReference("document", "viewer"), WildcardRelationReference("user"), FALSE),
      RelatedCase("direct_type",
           Model11(<<TypeDefinition("user", NoRelations),
                    TypeDefinition("document",
                  [viewer |-> Rel(This, <<DirectRelationReference("user", "")>>)])>>),
           DirectRelationReference("document", "viewer"), DirectRelationReference("user", ""), TRUE),
      RelatedCase("relation_not_related",
           Model11(<<TypeDefinition("user",
                  [manager |-> Rel(This, <<DirectRelationReference("user", "")>>)]),
                    TypeDefinition("document",
                  [viewer |-> Rel(This, <<DirectRelationReference("user", "")>>)])>>),
           DirectRelationReference("document", "viewer"), DirectRelationReference("user", "manager"), FALSE),
      RelatedCase("direct_and_userset",
           Model11(<<TypeDefinition("group",
                  [member |-> Rel(This, <<DirectRelationReference("group", "member")>>)]),
                    TypeDefinition("document",
                  [viewer |-> Rel(This, <<DirectRelationReference("group", "member")>>)])>>),
           DirectRelationReference("document", "viewer"), DirectRelationReference("group", "member"), TRUE) }

TestIsPubliclyAssignable ==
    { AssignableCase("1",
           Model11(<<TypeDefinition("user", NoRelations),
                    TypeDefinition("document",
                  [viewer |-> Rel(This, <<WildcardRelationReference("user")>>)])>>),
           DirectRelationReference("document", "viewer"), "user", TRUE),
      AssignableCase("2",
           Model11(<<TypeDefinition("user", NoRelations),
                    TypeDefinition("document",
                  [viewer |-> Rel(This, <<DirectRelationReference("user", "")>>)])>>),
           DirectRelationReference("document", "viewer"), "user", FALSE),
      AssignableCase("3",
           Model11(<<TypeDefinition("user", NoRelations),
                    TypeDefinition("employee", NoRelations),
                    TypeDefinition("document",
                  [viewer |-> Rel(This, <<WildcardRelationReference("employee")>>)])>>),
           DirectRelationReference("document", "viewer"), "user", FALSE),
      AssignableCase("4",
           Model11(<<TypeDefinition("user", NoRelations),
                    TypeDefinition("group",
                  [member |-> Rel(This, <<WildcardRelationReference("user")>>)]),
                    TypeDefinition("document",
                  [viewer |-> Rel(This, <<DirectRelationReference("group", "member")>>)])>>),
           DirectRelationReference("document", "viewer"), "user", FALSE) }

TestIsTuplesetRelation ==
    { TuplesetCase("undefined_object_type_returns_error",
           AuthorizationModel("", <<>>),
           "document", "viewer", FALSE, "ErrObjectTypeUndefined"),
      TuplesetCase("undefined_relation_returns_error",
           AuthorizationModel("", <<TypeDefinition("document", NoRelations)>>),
           "document", "viewer", FALSE, "ErrRelationUndefined"),
      TuplesetCase("direct_tupleset_relation",
           AuthorizationModel("", <<TypeDefinition("document",
                  [parent |-> Rel(This, <<>>),
                   viewer |-> Rel(TupleToUserset("parent", "viewer"), <<>>)])>>),
           "document", "parent", TRUE, ""),
      TuplesetCase("tupleset_relation_under_union",
           AuthorizationModel("", <<TypeDefinition("document",
                  [parent |-> Rel(This, <<>>),
                   viewer |-> Rel(Union(<<This, TupleToUserset("parent", "viewer")>>), <<>>)])>>),
           "document", "parent", TRUE, ""),
      TuplesetCase("tupleset_relation_under_intersection",
           AuthorizationModel("", <<TypeDefinition("document",
                  [parent |-> Rel(This, <<>>),
                   viewer |-> Rel(Intersection(<<This, TupleToUserset("parent", "viewer")>>), <<>>)])>>),
           "document", "parent", TRUE, ""),
      TuplesetCase("tupleset_relation_under_exclusion",
           AuthorizationModel("", <<TypeDefinition("document",
                  [parent |-> Rel(This, <<>>),
                   viewer |-> Rel(Difference(This, TupleToUserset("parent", "viewer")), <<>>)])>>),
           "document", "parent", TRUE, ""),
      TuplesetCase("tupleset_relation_under_nested_union",
           AuthorizationModel("", <<TypeDefinition("document",
                  [parent |-> Rel(This, <<>>),
                   viewer |-> Rel(Intersection(<<This, Union(<<TupleToUserset("parent", "viewer")>>)>>), <<>>)])>>),
           "document", "parent", TRUE, ""),
      TuplesetCase("tupleset_relation_under_nested_intersection",
           AuthorizationModel("", <<TypeDefinition("document",
                  [parent |-> Rel(This, <<>>),
                   viewer |-> Rel(Union(<<This, Intersection(<<TupleToUserset("parent", "viewer")>>)>>), <<>>)])>>),
           "document", "parent", TRUE, ""),
      TuplesetCase("tupleset_relation_under_nested_exclusion",
           AuthorizationModel("", <<TypeDefinition("document",
                  [parent |-> Rel(This, <<>>),
                   viewer |-> Rel(Union(<<This, Difference(This, TupleToUserset("parent", "viewer"))>>), <<>>)])>>),
           "document", "parent", TRUE, ""),
      TuplesetCase("not_a_tupleset_relation",
           AuthorizationModel("", <<TypeDefinition("document",
                  [parent |-> Rel(This, <<>>),
                   viewer |-> Rel(TupleToUserset("parent", "viewer"), <<>>)])>>),
           "document", "viewer", FALSE, "") }

EdgeTestModels == {c.model : c \in TestPrunedRelationshipEdges \cup TestRelationshipEdges}

QueryTestModels ==
    {c.model : c \in TestRelationInvolvesIntersection \cup TestRelationInvolvesExclusion
                        \cup TestIsTuplesetRelation \cup TestIsDirectlyRelated
                        \cup TestIsPubliclyAssignable}

\* The generated models of the graph queries: a document type whose viewer
\* takes every list of at most MaxTypeRestrictions of these references.
MaxTypeRestrictions == 2

GraphReferences ==
    {DirectRelationReference("user", ""), WildcardRelationReference("user"),
     DirectRelationReference("group", ""), WildcardRelationReference("group"),
     DirectRelationReference("group", "member"), DirectRelationReference("document", "editor")}

RestrictionLists ==
    {l \in UNION {[1..n -> GraphReferences] : n \in 0..MaxTypeRestrictions} :
        \A i, j \in DOMAIN l : i # j => l[i] # l[j]}

GraphViewerRewrites ==
    {This, Union(<<This, ComputedUserset("editor")>>),
     Intersection(<<This, ComputedUserset("editor")>>),
     Union(<<This, TupleToUserset("parent", "member")>>),
     Intersection(<<TupleToUserset("parent", "member"), ComputedUserset("editor")>>)}

GraphEditorLists ==
    {<<DirectRelationReference("user", "")>>,
     <<WildcardRelationReference("group")>>}

GraphModel(viewer, viewerTypes, editorTypes) ==
    Model11(<<UserType,
              TypeDefinition("group",
                 [member |-> Rel(This, <<DirectRelationReference("user", ""),
                                         WildcardRelationReference("user")>>)]),
              TypeDefinition("document",
                 [parent |-> Rel(This, <<DirectRelationReference("group", "")>>),
                  editor |-> Rel(This, editorTypes),
                  viewer |-> Rel(viewer, viewerTypes)])>>)

\* Models in which a combinator lies behind the operand the pruned walk
\* leaves out: an intersection behind the subtract of a difference, and a
\* difference behind the second operand of an intersection; and one in which
\* a relation is the second operand of one intersection and the first of the
\* next.
ClassifierModels ==
    LET user == <<DirectRelationReference("user", "")>>
    IN  {Model11(<<UserType,
                   TypeDefinition("document",
                      [allowed |-> Rel(This, user),
                       blocked |-> Rel(Intersection(<<This, ComputedUserset("allowed")>>), user),
                       viewer |-> Rel(Difference(This, ComputedUserset("blocked")), user)])>>),
         Model11(<<UserType,
                   TypeDefinition("document",
                      [blocked |-> Rel(This, user),
                       gated |-> Rel(Difference(This, ComputedUserset("blocked")), user),
                       viewer |-> Rel(Intersection(<<This, ComputedUserset("gated")>>), user)])>>),
         Model11(<<UserType,
                   TypeDefinition("document",
                      [allowed |-> Rel(This, user),
                       viewer |-> Rel(Union(<<Intersection(<<This, ComputedUserset("allowed")>>),
                                              Intersection(<<ComputedUserset("allowed"), This>>)>>),
                                      user)])>>)}

GraphModels ==
    EdgeTestModels \cup QueryTestModels \cup ClassifierModels
        \cup {GraphModel(rw, l, e) :
                 rw \in GraphViewerRewrites, l \in RestrictionLists, e \in GraphEditorLists}

\* The targets asked for: every relation of the model, a relation its type
\* does not define and a type the model does not define.
QueryTargets(m) ==
    {DirectRelationReference(tr[1], tr[2]) : tr \in AllRelations(m)}
        \cup {DirectRelationReference(T, R) : T \in TypeNames(m), R \in {"undefined", "viewer"}}
        \cup {DirectRelationReference("undefined", "viewer"),
              DirectRelationReference("document", "viewer")}

\* The sources asked for: each type, its wildcard, and each userset.
QuerySources(m) ==
    {DirectRelationReference(T, "") : T \in TypeNames(m)}
        \cup {WildcardRelationReference(T) : T \in TypeNames(m)}
        \cup {DirectRelationReference(tr[1], tr[2]) : tr \in AllRelations(m)}

\* New(model) and NewGraph(typesys): no validation.
GraphInit ==
    /\ model \in GraphModels
    /\ pc = "graph"
    /\ err = NoError
    /\ marked = {}
    /\ round = 0
    /\ query = NoQuery
    /\ NoWalk
    /\ NoServer

Answer(op, target, source, result) ==
    [op |-> op, target |-> target, source |-> source,
     edges |-> IF result.err = "" THEN result.edges ELSE <<>>, value |-> FALSE,
     err |-> result.err]

\* A variant of GetRelationError that reports every failure as a missing type.
GetRelationErrorOfType(m, T, R) ==
    IF ~HasType(m, T) \/ ~HasRelation(m, T, R) THEN "ErrObjectTypeUndefined" ELSE ""

\* GetRelation(objectType, relation): the error of looking the relation up.
GetRelationError(m, T, R) ==
    IF ~HasType(m, T) THEN "ErrObjectTypeUndefined"
    ELSE IF ~HasRelation(m, T, R) THEN "ErrRelationUndefined"
    ELSE ""

\* The answer of a boolean query: false together with an error.
AnswerBool(op, target, source, value, error) ==
    [op |-> op, target |-> target, source |-> source, edges |-> <<>>,
     value |-> error = "" /\ value, err |-> error]

\* The relations a two-reference query is asked about: those the model defines.
DefinedTargets(m) == {DirectRelationReference(tr[1], tr[2]) : tr \in AllRelations(m)}

CallGetRelationshipEdges ==
    /\ pc = "graph"
    /\ \E target \in QueryTargets(model), source \in QuerySources(model) :
          query' = Answer("GetRelationshipEdges", target, source,
                          GetRelationshipEdges(model, target, source))
    /\ pc' = "answered"
    /\ UNCHANGED <<model, err, marked, round, walk, server>>

CallGetPrunedRelationshipEdges ==
    /\ pc = "graph"
    /\ \E target \in QueryTargets(model), source \in QuerySources(model) :
          query' = Answer("GetPrunedRelationshipEdges", target, source,
                          GetPrunedRelationshipEdges(model, target, source))
    /\ pc' = "answered"
    /\ UNCHANGED <<model, err, marked, round, walk, server>>

CallRelationInvolvesIntersection ==
    /\ pc = "graph"
    /\ \E target \in QueryTargets(model) :
          query' = AnswerBool("RelationInvolvesIntersection", target, NoReference,
                              RelationInvolvesIntersection(model, target.type, target.rel),
                              GetRelationError(model, target.type, target.rel))
    /\ pc' = "answered"
    /\ UNCHANGED <<model, err, marked, round, walk, server>>

CallRelationInvolvesExclusion ==
    /\ pc = "graph"
    /\ \E target \in QueryTargets(model) :
          query' = AnswerBool("RelationInvolvesExclusion", target, NoReference,
                              RelationInvolvesExclusion(model, target.type, target.rel),
                              GetRelationError(model, target.type, target.rel))
    /\ pc' = "answered"
    /\ UNCHANGED <<model, err, marked, round, walk, server>>

CallIsTuplesetRelation ==
    /\ pc = "graph"
    /\ \E target \in QueryTargets(model) :
          query' = AnswerBool("IsTuplesetRelation", target, NoReference,
                              IsTuplesetRelation(model, target.type, target.rel),
                              GetRelationError(model, target.type, target.rel))
    /\ pc' = "answered"
    /\ UNCHANGED <<model, err, marked, round, walk, server>>

CallIsDirectlyRelated ==
    /\ pc = "graph"
    /\ \E target \in DefinedTargets(model), source \in QuerySources(model) :
          query' = AnswerBool("IsDirectlyRelated", target, source,
                              IsDirectlyRelated(model, target, source), "")
    /\ pc' = "answered"
    /\ UNCHANGED <<model, err, marked, round, walk, server>>

CallIsPubliclyAssignable ==
    /\ pc = "graph"
    /\ \E target \in DefinedTargets(model), objectType \in TypeNames(model) :
          query' = AnswerBool("IsPubliclyAssignable", target,
                              WildcardRelationReference(objectType),
                              IsPubliclyAssignable(model, target, objectType), "")
    /\ pc' = "answered"
    /\ UNCHANGED <<model, err, marked, round, walk, server>>

GraphNext ==
    \/ CallGetRelationshipEdges
    \/ CallGetPrunedRelationshipEdges
    \/ CallRelationInvolvesIntersection
    \/ CallRelationInvolvesExclusion
    \/ CallIsTuplesetRelation
    \/ CallIsDirectlyRelated
    \/ CallIsPubliclyAssignable

GraphSpec == GraphInit /\ [][GraphNext]_vars

(***************************************************************************)
(* The walk of the graph taken one frame at a time, on a validated model:  *)
(* the calls of getRelationshipEdges in the order the recursion makes      *)
(* them, the frames still to enter kept on a stack.                        *)
(***************************************************************************)
\* The most expansions of one frame a walk is followed to.
MaxExpansions == 2

RECURSIVE Concat(_)
Concat(lists) == IF lists = <<>> THEN <<>> ELSE Head(lists) \o Concat(Tail(lists))

RECURSIVE FramesCalled(_, _, _, _)
\* The frames the rewrite rw of target calls getRelationshipEdges on, in the
\* order of the calls.
FramesCalled(m, target, rw, option) ==
    CASE rw.k = "this" ->
            LET IsUserset(ref) == ref.rel # ""
                usersets == SelectSeq(GetDirectlyRelatedUserTypes(m, target[1], target[2]),
                                      IsUserset)
            IN  [i \in DOMAIN usersets |-> <<usersets[i].type, usersets[i].rel>>]
      [] rw.k = "cu" -> << <<target[1], rw.rel>> >>
      [] rw.k = "ttu" ->
            LET HasComputed(ref) == HasRelation(m, ref.type, rw.rel)
                related == IF HasRelation(m, target[1], rw.ts)
                           THEN SelectSeq(GetDirectlyRelatedUserTypes(m, target[1], rw.ts),
                                          HasComputed)
                           ELSE <<>>
            IN  [i \in DOMAIN related |-> <<related[i].type, rw.rel>>]
      [] rw.k = "union" ->
            Concat([i \in DOMAIN rw.ch |-> FramesCalled(m, target, rw.ch[i], option)])
      [] rw.k \in {"inter", "diff"} ->
            IF option = ResolveAnyEdges
            THEN FramesCalled(m, target, rw.ch[1], option)
            ELSE Concat([i \in DOMAIN rw.ch |-> FramesCalled(m, target, rw.ch[i], option)])
      [] OTHER -> <<>>

\* The operand option of each query that walks the graph.
WalkOption(op) ==
    IF op = "GetPrunedRelationshipEdges" THEN ResolveAnyEdges ELSE ResolveAllEdges

\* A variant of IsVisited that never finds the frame.
NeverVisited(frame, seen) == FALSE

\* The cycle guard: the frame was entered before in this call.
IsVisited(frame, seen) == frame \in seen

WalkInit ==
    /\ model \in {m \in GraphModels \cup TestModels :
                    m.schema \in {SchemaVersion1_0, SchemaVersion1_1} /\ Validates(m)}
    /\ pc = "graph"
    /\ err = NoError
    /\ marked = {}
    /\ round = 0
    /\ query = NoQuery
    /\ NoWalk
    /\ NoServer

\* The queries that walk the graph.
WalkedQueries ==
    {"GetRelationshipEdges", "GetPrunedRelationshipEdges",
     "RelationInvolvesIntersection", "RelationInvolvesExclusion"}

\* One of them is called: its target is the first frame.
StartWalk ==
    /\ pc = "graph"
    /\ \E op \in WalkedQueries, target \in QueryTargets(model) :
          LET frames == AllRelations(model) \cup {<<target.type, target.rel>>}
          IN  /\ query' = [NoQuery EXCEPT !.op = op, !.target = target]
              /\ stack' = << <<target.type, target.rel>> >>
              /\ calls' = [f \in frames |-> 0]
              /\ expansions' = [f \in frames |-> 0]
    /\ pc' = "walking"
    /\ UNCHANGED <<model, err, marked, round, visitedFrames, server>>

\* The frame on top is entered for the first time: it is marked visited and
\* the frames its rewrite calls take its place.
ExpandFrame ==
    /\ pc = "walking" /\ stack # <<>>
    /\ LET frame == Head(stack)
       IN  /\ ~IsVisited(frame, visitedFrames)
           /\ GetRelationError(model, frame[1], frame[2]) = ""
           /\ expansions[frame] < MaxExpansions
           /\ visitedFrames' = visitedFrames \cup {frame}
           /\ calls' = [calls EXCEPT ![frame] = @ + 1]
           /\ expansions' = [expansions EXCEPT ![frame] = @ + 1]
           /\ stack' = FramesCalled(model, frame, GetRewrite(model, frame[1], frame[2]),
                                    WalkOption(query.op))
                           \o Tail(stack)
    /\ UNCHANGED <<model, pc, err, marked, round, query, server>>

\* The frame on top was visited before: the call returns at once.
SkipFrame ==
    /\ pc = "walking" /\ stack # <<>>
    /\ IsVisited(Head(stack), visitedFrames)
    /\ calls' = [calls EXCEPT ![Head(stack)] = @ + 1]
    /\ stack' = Tail(stack)
    /\ UNCHANGED <<model, pc, err, marked, round, query, visitedFrames, expansions, server>>

\* The frame on top names a type or a relation the model does not define:
\* the query returns the error.
FailFrame ==
    /\ pc = "walking" /\ stack # <<>>
    /\ LET frame == Head(stack)
       IN  /\ ~IsVisited(frame, visitedFrames)
           /\ GetRelationError(model, frame[1], frame[2]) # ""
           /\ query' = [query EXCEPT !.err = GetRelationError(model, frame[1], frame[2])]
           /\ calls' = [calls EXCEPT ![frame] = @ + 1]
    /\ stack' = <<>>
    /\ pc' = "answered"
    /\ UNCHANGED <<model, err, marked, round, visitedFrames, expansions, server>>

\* No frame is left: the query returns.
ReturnWalk ==
    /\ pc = "walking" /\ stack = <<>>
    /\ pc' = "answered"
    /\ UNCHANGED <<model, err, marked, round, query, walk, server>>

WalkNext ==
    \/ StartWalk
    \/ ExpandFrame
    \/ SkipFrame
    \/ FailFrame
    \/ ReturnWalk

\* A query is one call on one thread: once called it runs until it returns.
WalkSpec == WalkInit /\ [][WalkNext]_vars /\ WF_vars(WalkNext)

\* The frames visited step by step are those the walk as a whole visits.
WalkAgrees ==
    (pc = "answered" /\ query.op # "") =>
        LET whole == getRelationshipEdges(model, query.target, NoReference, {},
                                          WalkOption(query.op))
        IN  IF query.op \in {"GetRelationshipEdges", "GetPrunedRelationshipEdges"}
            THEN query.err = whole.err /\ (whole.err = "" => visitedFrames = whole.visited)
            ELSE /\ query.err = GetRelationError(model, query.target.type, query.target.rel)
                 /\ visitedFrames = ReachableRelations(
                                  model, {<<query.target.type, query.target.rel>>}, {})

Answered(op) == pc = "answered" /\ query.op = op

\* The edges compared as the tests compare them: sorted, so without order.
SameEdges(got, expected) ==
    Len(got) = Len(expected) /\ Range(got) = Range(expected)

\* The graph returns what each case of the two edge tables expects.
EdgesCorpusAgrees ==
    /\ Answered("GetRelationshipEdges") =>
          \A c \in TestRelationshipEdges :
              (c.model = model /\ c.target = query.target /\ c.source = query.source)
                  => (query.err = "" /\ SameEdges(query.edges, c.expected))
    /\ Answered("GetPrunedRelationshipEdges") =>
          \A c \in TestPrunedRelationshipEdges :
              (c.model = model /\ c.target = query.target /\ c.source = query.source)
                  => (query.err = "" /\ SameEdges(query.edges, c.expected))

BoolCaseAgrees(op, cases) ==
    Answered(op) =>
        \A c \in cases :
            (c.model = model /\ c.target = query.target)
                => (query.value = c.expected /\ query.err = c.err)

RelatedCaseAgrees(op, cases) ==
    Answered(op) =>
        \A c \in cases :
            (c.model = model /\ c.target = query.target /\ c.source = query.source)
                => (query.value = c.expected /\ query.err = "")

\* The boolean queries return what each case of their tables expects.
QueriesCorpusAgrees ==
    /\ BoolCaseAgrees("RelationInvolvesIntersection", TestRelationInvolvesIntersection)
    /\ BoolCaseAgrees("RelationInvolvesExclusion", TestRelationInvolvesExclusion)
    /\ BoolCaseAgrees("IsTuplesetRelation", TestIsTuplesetRelation)
    /\ RelatedCaseAgrees("IsDirectlyRelated", TestIsDirectlyRelated)
    /\ RelatedCaseAgrees("IsPubliclyAssignable", TestIsPubliclyAssignable)

\* Every case of the five tables is asked.
QueriesCorpusAsked ==
    \A c \in TestRelationInvolvesIntersection \cup TestRelationInvolvesExclusion
                \cup TestIsTuplesetRelation \cup TestIsDirectlyRelated
                \cup TestIsPubliclyAssignable :
        c.target \in QueryTargets(c.model)
            /\ ("source" \in DOMAIN c =>
                    c.target \in DefinedTargets(c.model) /\ c.source \in QuerySources(c.model))

(***************************************************************************)
(* What the claims below are stated in: the checks a model passes, and     *)
(* the least fixed point of the entrypoint rules, stated on sets.          *)
(***************************************************************************)
NamesValid(m) == ReservedNameErrors(m) = {} /\ DuplicateTypeErrors(m) = {}

RewritesNonEmpty(m) == NamesValid(m) /\ EmptyRewriteErrors(m) = {}

ReferencesResolve(m) == RewritesNonEmpty(m) /\ RelationUndefinedErrors(m) = {}

RewritesValid(m) == ReferencesResolve(m) /\ SelfReferenceErrors(m) = {}

TypeRestrictionsValid(m) == RewritesValid(m) /\ TypeRestrictionErrors(m) = {}

StructurallyValid(m) == TypeRestrictionsValid(m) /\ TuplesetRestrictionErrors(m) = {}

Is11(m) == m.schema = SchemaVersion1_1

UsesDifference(m) ==
    \E tr \in AllRelations(m) : RewriteContainsExclusion(GetRewrite(m, tr[1], tr[2]))

RECURSIVE RuleSatisfied(_, _, _, _, _, _)
\* The entrypoint rules as the claims state them; subtractCounts tells
\* whether the subtract side of a difference needs an entrypoint too.
RuleSatisfied(m, T, R, rw, S, subtractCounts) ==
    LET allowed(rel) == Range(TypeDef(m, T).metadata[rel])
        sub(i) == RuleSatisfied(m, T, R, rw.ch[i], S, subtractCounts)
    IN  CASE rw.k = "this" ->
                \E a \in allowed(R) : a.wild \/ a.rel = "" \/ <<a.type, a.rel>> \in S
          [] rw.k = "cu" -> <<T, rw.rel>> \in S
          [] rw.k = "ttu" -> \E a \in allowed(rw.ts) : <<a.type, rw.rel>> \in S
          [] rw.k = "union" -> \E i \in 1..Len(rw.ch) : sub(i)
          [] rw.k = "inter" -> \A i \in 1..Len(rw.ch) : sub(i)
          [] rw.k = "diff" -> sub(1) /\ (subtractCounts => sub(2))
          [] OTHER -> FALSE

\* The least set closed under the rules: what every closed set contains.
LeastFixedPoint(m, subtractCounts) ==
    LET all == AllRelations(m)
        closed(S) ==
            \A tr \in all :
                RuleSatisfied(m, tr[1], tr[2], GetRewrite(m, tr[1], tr[2]), S, subtractCounts)
                    => tr \in S
    IN  {tr \in all : \A S \in SUBSET all : closed(S) => tr \in S}

IsNoEntrypointError(e) == e.kind \in {"ErrNoEntrypoints", "ErrNoEntryPointsLoop"}

CaseModel(cases, name) == (CHOOSE c \in cases : c.name = name).model

\* C1: a schema 1.1 model that passes the structural checks and uses no
\* Difference is accepted if and only if the least fixed point of the
\* entrypoint rules marks every (type, relation); the iteration ends with
\* exactly that set marked.  `viewer: [document#viewer] as self or editor` is
\* accepted, `viewer: [document#viewer] as self and editor` is rejected.
C1_AcceptedIffLeastFixedPoint ==
    /\ (Done /\ Is11(model) /\ StructurallyValid(model) /\ ~UsesDifference(model)) =>
          /\ marked = LeastFixedPoint(model, FALSE)
          /\ (err = NoError) <=> (AllRelations(model) \subseteq LeastFixedPoint(model, FALSE))
          /\ err # NoError => IsNoEntrypointError(err)
    /\ (Done /\ model = CaseModel(TestNewAndValidate, "self_referencing_type_restriction_with_entrypoint_2"))
          => err = NoError
    /\ (Done /\ model = CaseModel(TestNewAndValidate, "no_entrypoint_3a"))
          => IsNoEntrypointError(err)

\* A model without Difference whose relations the fixed point marks through
\* a userset type restriction and a union, in more than one iteration.
C1_Witness ==
    /\ Accepted /\ Is11(model) /\ ~UsesDifference(model) /\ round > 1
    /\ \E tr \in AllRelations(model) :
          /\ GetRewrite(model, tr[1], tr[2]).k = "union"
          /\ DirectRelationReference(tr[1], tr[2])
                \in Range(GetDirectlyRelatedUserTypes(model, tr[1], tr[2]))

\* C2 as claimed: a Difference has an entrypoint as soon as its base has
\* one, so that a model is accepted if and only if the fixed point of the
\* rules with that reading marks every relation.
C2_DifferenceNeedsBaseOnly ==
    (Done /\ Is11(model) /\ StructurallyValid(model)) =>
        ((err = NoError) <=> (AllRelations(model) \subseteq LeastFixedPoint(model, FALSE)))

\* C2, amended: a Difference has an entrypoint only when both its base and
\* its subtract side have one; a model whose relations are `admin but not X`
\* with the X operands in a cycle is rejected with ErrNoEntryPointsLoop.
C2_DifferenceNeedsBothSides ==
    /\ (Done /\ Is11(model) /\ StructurallyValid(model)) =>
          /\ marked = LeastFixedPoint(model, TRUE)
          /\ (err = NoError) <=> (AllRelations(model) \subseteq LeastFixedPoint(model, TRUE))
    /\ (Done /\ model = CaseModel(TestNewAndValidate, "no_entrypoint_2"))
          => err.kind = "ErrNoEntryPointsLoop"

\* A rejected model in which a difference has a base with an entrypoint and
\* a subtract side without one.
C2_Witness ==
    /\ Done /\ Is11(model) /\ StructurallyValid(model) /\ IsNoEntrypointError(err)
    /\ GetRewrite(model, err.type, err.rel).k = "diff"
    /\ RuleSatisfied(model, err.type, err.rel, GetRewrite(model, err.type, err.rel).ch[1],
                     marked, TRUE)

\* The computed-userset references among the relations of U, as pairs.
ComputedReferences(m, U) ==
    {e \in U \X U :
        \E leaf \in Leaves(GetRewrite(m, e[1][1], e[1][2])) :
            leaf.k = "cu" /\ e[2] = <<e[1][1], leaf.rel>>}

RECURSIVE TransitiveClosure(_, _)
TransitiveClosure(E, n) ==
    IF n = 0 THEN E
    ELSE LET C == TransitiveClosure(E, n - 1)
         IN  C \cup {<<p[1][1], p[2][2]>> : p \in {q \in C \X E : q[1][2] = q[2][1]}}

\* tr comes, along computed usersets through relations of U, to a relation
\* that lies on a cycle of such references.
OnComputedCycle(m, U, tr) ==
    LET plus == TransitiveClosure(ComputedReferences(m, U), Cardinality(U))
    IN  \E c \in U : (c = tr \/ <<tr, c>> \in plus) /\ <<c, c>> \in plus

\* C3: a relation left unmarked is reported with ErrNoEntryPointsLoop exactly
\* when it re-enters an unmarked relation through a cycle of computed-userset
\* references, and with ErrNoEntrypoints otherwise; a tuple-to-userset whose
\* computed relation the tupleset's type lacks, and an intersection operand
\* that can never be satisfied, are of the second kind.
C3_LoopExactlyOnComputedCycle ==
    /\ (Done /\ IsNoEntrypointError(err)) =>
          LET U == AllRelations(model) \ LeastFixedPoint(model, TRUE)
              tr == <<err.type, err.rel>>
          IN  /\ tr \in U
              /\ (err.kind = "ErrNoEntryPointsLoop") <=> OnComputedCycle(model, U, tr)
    /\ (Done /\ model = CaseModel(TestNewAndValidate, "no_entrypoint_4"))
          => err.kind = "ErrNoEntrypoints"
    /\ (Done /\ model = CaseModel(TestNewAndValidate, "no_entrypoint_3a"))
          => err.kind = "ErrNoEntrypoints"
    /\ (Done /\ model = CaseModel(TestInvalidRewriteValidations,
                                  "Fails_If_Auth_Model_1.1_Has_A_Cycle_And_Only_One_Type"))
          => err.kind = "ErrNoEntrypoints"

\* A loop reported for a relation that is not itself on the cycle it enters.
C3_Witness ==
    /\ Done /\ err.kind = "ErrNoEntryPointsLoop"
    /\ LET U == AllRelations(model) \ marked
           plus == TransitiveClosure(ComputedReferences(model, U), Cardinality(U))
       IN  \E c \in U : c # <<err.type, err.rel>> /\ <<c, c>> \in plus

\* Every tupleset relation named by a tuple-to-userset is defined on its type.
TuplesetsDefined(m) ==
    \A tr \in AllRelations(m) :
        \A leaf \in Leaves(GetRewrite(m, tr[1], tr[2])) :
            leaf.k = "ttu" => HasRelation(m, tr[1], leaf.ts)

\* A tuple-to-userset of (T, R) whose computed relation none of the types
\* allowed by its tupleset relation defines.
IsForeignTupleToUserset(m, T, leaf) ==
    /\ leaf.k = "ttu"
    /\ HasRelation(m, T, leaf.ts)
    /\ \A a \in Range(GetDirectlyRelatedUserTypes(m, T, leaf.ts)) :
           ~(HasType(m, a.type) /\ HasRelation(m, a.type, leaf.rel))

HasForeignTupleToUserset(m) ==
    \E tr \in AllRelations(m) :
        \E leaf \in Leaves(GetRewrite(m, tr[1], tr[2])) :
            IsForeignTupleToUserset(m, tr[1], leaf)

\* The errors of the earliest check of the list that fails, {} for none.
EarliestErrors(m) ==
    IF ReservedNameErrors(m) # {} THEN ReservedNameErrors(m)
    ELSE IF DuplicateTypeErrors(m) # {} THEN DuplicateTypeErrors(m)
    ELSE IF EmptyRewriteErrors(m) # {} THEN EmptyRewriteErrors(m)
    ELSE IF RelationUndefinedErrors(m) # {} THEN RelationUndefinedErrors(m)
    ELSE IF SelfReferenceErrors(m) # {} THEN SelfReferenceErrors(m)
    ELSE IF ~Is11(m) THEN {}
    ELSE IF TypeRestrictionErrors(m) # {} THEN TypeRestrictionErrors(m)
    ELSE IF TuplesetRestrictionErrors(m) # {} THEN TuplesetRestrictionErrors(m)
    ELSE {Error(k, tr[1], tr[2]) :
             k \in {"ErrNoEntrypoints", "ErrNoEntryPointsLoop"},
             tr \in AllRelations(m) \ LeastFixedPoint(m, TRUE)}

\* C4 as claimed: the checks run in the listed order, so a model with a
\* tuple-to-userset whose computed relation is not defined on the tupleset's
\* allowed type and with a relation without an entrypoint is rejected with
\* ErrRelationUndefined.
C4_ForeignTupleToUsersetIsUndefined ==
    (/\ Done /\ Is11(model) /\ RewritesNonEmpty(model) /\ TuplesetsDefined(model)
     /\ HasForeignTupleToUserset(model)
     /\ ~(AllRelations(model) \subseteq LeastFixedPoint(model, TRUE)))
        => err.kind = "ErrRelationUndefined"

\* C4, amended: the checks run in the listed order and the error returned is
\* one of the earliest failing check; a structurally valid model with a
\* tuple-to-userset whose computed relation is defined in the model but not
\* on the tupleset's allowed type, and with a relation without an entrypoint,
\* is rejected by the entrypoint analysis, not with ErrRelationUndefined.
C4_EarliestCheckDecides ==
    /\ Done => IF EarliestErrors(model) = {} THEN err = NoError
               ELSE err \in EarliestErrors(model)
    /\ (/\ Done /\ Is11(model) /\ StructurallyValid(model)
        /\ HasForeignTupleToUserset(model)
        /\ ~(AllRelations(model) \subseteq LeastFixedPoint(model, TRUE)))
          => IsNoEntrypointError(err)
    /\ (Done /\ model = CaseModel(TestNewAndValidate, "no_entrypoint_4"))
          => err = Error("ErrNoEntrypoints", err.type, err.rel)

\* A structurally valid model with such a tuple-to-userset, rejected for the
\* relation that holds it.
C4_Witness ==
    /\ Done /\ Is11(model) /\ StructurallyValid(model)
    /\ err.kind = "ErrNoEntrypoints"
    /\ \E leaf \in Leaves(GetRewrite(model, err.type, err.rel)) :
          IsForeignTupleToUserset(model, err.type, leaf)

\* The relations a ComputedUserset leaf of whose own rewrite names them.
ComputedSelfReferences(m) ==
    {tr \in AllRelations(m) :
        \E leaf \in Leaves(GetRewrite(m, tr[1], tr[2])) : leaf.k = "cu" /\ leaf.rel = tr[2]}

\* The relations a TupleToUserset leaf of whose own rewrite computes them.
TupleToUsersetSelfReferences(m) ==
    {tr \in AllRelations(m) :
        \E leaf \in Leaves(GetRewrite(m, tr[1], tr[2])) : leaf.k = "ttu" /\ leaf.rel = tr[2]}

\* C5: a relation whose rewrite has, at any depth, a ComputedUserset leaf
\* naming the relation itself makes NewAndValidate fail with
\* ErrInvalidUsersetRewrite; a TupleToUserset whose computed relation is the
\* relation itself is not rejected by this check.
C5_ComputedSelfReferenceRejected ==
    (Done /\ ReferencesResolve(model)) =>
        /\ (err.kind = "ErrInvalidUsersetRewrite") <=> (ComputedSelfReferences(model) # {})
        /\ err.kind = "ErrInvalidUsersetRewrite"
              => <<err.type, err.rel>> \in ComputedSelfReferences(model)

\* A self reference on the subtract side of a difference, rejected.
C5_Witness ==
    /\ Done /\ ReferencesResolve(model) /\ err.kind = "ErrInvalidUsersetRewrite"
    /\ GetRewrite(model, err.type, err.rel).k = "diff"
    /\ GetRewrite(model, err.type, err.rel).ch[2] = ComputedUserset(err.rel)

\* A model accepted although a tuple-to-userset computes its own relation.
C5_TupleToUsersetAccepted == Accepted /\ TupleToUsersetSelfReferences(model) # {}

\* C6 as claimed: in an accepted model no relation comes back to itself
\* through a chain of ComputedUserset references on its type.
C6_NoComputedCycleAccepted ==
    Accepted =>
        LET all == AllRelations(model)
            plus == TransitiveClosure(ComputedReferences(model, all), Cardinality(all))
        IN  \A tr \in all : <<tr, tr>> \notin plus

\* The relations with an undefined ComputedUserset target, an undefined
\* tupleset, or a computed relation that no type of the model defines.
UndefinedReferences(m) ==
    {tr \in AllRelations(m) :
        \E leaf \in Leaves(GetRewrite(m, tr[1], tr[2])) :
            \/ leaf.k = "cu" /\ leaf.rel \notin RelationNames(m, tr[1])
            \/ leaf.k = "ttu" /\ leaf.ts \notin RelationNames(m, tr[1])
            \/ leaf.k = "ttu" /\ \A T \in TypeNames(m) : leaf.rel \notin RelationNames(m, T)}

\* C7 as claimed: ErrRelationUndefined is returned when a ComputedUserset
\* target or a tupleset relation is not defined on the owning type, or when a
\* TupleToUserset computed relation is defined on none of the types allowed
\* by the tupleset relation.
C7_UndefinedOnAllowedTypes ==
    (Done /\ Is11(model) /\ RewritesNonEmpty(model)) =>
        ((UndefinedReferences(model) # {} \/ HasForeignTupleToUserset(model))
            => err.kind = "ErrRelationUndefined")

\* C7, amended: ErrRelationUndefined is returned exactly when, at any depth
\* of a rewrite, a ComputedUserset target or a tupleset relation is not
\* defined on the owning type, or a TupleToUserset computed relation is
\* defined on no type of the model; a computed relation that only the types
\* allowed by the tupleset lack does not fail this check.
C7_UndefinedInModel ==
    (Done /\ RewritesNonEmpty(model)) =>
        /\ (err.kind = "ErrRelationUndefined") <=> (UndefinedReferences(model) # {})
        /\ (UndefinedReferences(model) = {} /\ HasForeignTupleToUserset(model))
              => err.kind # "ErrRelationUndefined"

\* An undefined reference below a combinator is found.
C7_Witness ==
    /\ Done /\ err.kind = "ErrRelationUndefined" /\ UndefinedReferences(model) # {}
    /\ \E tr \in UndefinedReferences(model) : IsCombinator(GetRewrite(model, tr[1], tr[2]))

\* The rewrite has a This leaf.
HasThisLeaf(m, tr) == \E leaf \in Leaves(GetRewrite(m, tr[1], tr[2])) : leaf.k = "this"

HasTypeList(m, tr) == Len(GetDirectlyRelatedUserTypes(m, tr[1], tr[2])) > 0

\* C8: in an accepted schema 1.1 model a relation has a non-empty list of
\* directly related user types if and only if its rewrite has a This leaf; a
\* This leaf with an empty list is an AssignableRelationError, a non-empty
\* list without a This leaf a NonAssignableRelationError.
C8_TypeListIffThis ==
    /\ (Accepted /\ Is11(model)) =>
          \A tr \in AllRelations(model) : HasTypeList(model, tr) <=> HasThisLeaf(model, tr)
    /\ (Done /\ Is11(model) /\ RewritesValid(model)) =>
          /\ (\E tr \in AllRelations(model) : HasTypeList(model, tr) # HasThisLeaf(model, tr))
                => err.kind \in {"AssignableRelationError", "NonAssignableRelationError",
                                 "InvalidRelationTypeError"}
          /\ err.kind = "AssignableRelationError"
                => (HasThisLeaf(model, <<err.type, err.rel>>)
                    /\ ~HasTypeList(model, <<err.type, err.rel>>))
          /\ err.kind = "NonAssignableRelationError"
                => (~HasThisLeaf(model, <<err.type, err.rel>>)
                    /\ HasTypeList(model, <<err.type, err.rel>>))
          /\ (\A tr \in AllRelations(model) : HasTypeList(model, tr) = HasThisLeaf(model, tr))
                => err.kind \notin {"AssignableRelationError", "NonAssignableRelationError"}

\* A This leaf on the subtract side of a difference with no type list.
C8_Witness ==
    /\ Done /\ Is11(model) /\ RewritesValid(model)
    /\ err.kind = "AssignableRelationError"
    /\ GetRewrite(model, err.type, err.rel).k = "diff"
    /\ GetRewrite(model, err.type, err.rel).ch[2].k = "this"

\* The references of a tupleset relation that are not direct types.
IndirectTuplesetReferences(m) ==
    {<<tr, ref>> \in AllRelations(m) \X
                     UNION {Range(GetDirectlyRelatedUserTypes(m, x[1], x[2])) :
                               x \in AllRelations(m)} :
        /\ \E R2 \in RelationNames(m, tr[1]) :
              \E leaf \in Leaves(GetRewrite(m, tr[1], R2)) : leaf.k = "ttu" /\ leaf.ts = tr[2]
        /\ ref \in Range(GetDirectlyRelatedUserTypes(m, tr[1], tr[2]))
        /\ (ref.wild \/ ref.rel # "")}

\* C9: in an accepted model a relation for which IsTuplesetRelation is true
\* has only direct type references; a wildcard or a userset reference in its
\* list makes NewAndValidate fail with an InvalidRelationTypeError naming the
\* relation and the reference.
C9_TuplesetRelationsDirectOnly ==
    /\ Accepted => IndirectTuplesetReferences(model) = {}
    /\ (Done /\ Is11(model) /\ TypeRestrictionsValid(model)) =>
          /\ IndirectTuplesetReferences(model) # {}
                => \E p \in IndirectTuplesetReferences(model) :
                       err = InvalidRelationTypeError(p[1][1], p[1][2], p[2].type, p[2].rel)
          /\ IndirectTuplesetReferences(model) = {} => err.kind # "InvalidRelationTypeError"

\* A tupleset relation rejected for a wildcard in its list.
C9_Witness ==
    /\ Done /\ Is11(model) /\ TypeRestrictionsValid(model)
    /\ err.kind = "InvalidRelationTypeError"
    /\ \E p \in IndirectTuplesetReferences(model) :
          p[2].wild /\ p[1] = <<err.type, err.rel>>

\* The allowed type A subsumes the source S: the same direct type, the same
\* type#relation, or the wildcard of the type of a direct or wildcard source.
Subsumes(A, S) ==
    /\ A.type = S.type
    /\ \/ A.rel # "" /\ A.rel = S.rel
       \/ ~A.wild /\ A.rel = "" /\ ~S.wild /\ S.rel = ""
       \/ A.wild /\ S.rel = ""

\* The relations with a This leaf that the walk from target comes to.
ThisRelationsReached(m, target) ==
    {tr \in ReachableRelations(m, {<<target.type, target.rel>>}, {}) : HasThisLeaf(m, tr)}

HasDirectEdge(edges, tr) ==
    \E i \in DOMAIN edges :
        /\ edges[i].Type = DirectEdge
        /\ edges[i].TargetReference = DirectRelationReference(tr[1], tr[2])

\* C10 as claimed: GetRelationshipEdges(target, source) has DirectEdge{R},
\* R a relation with a This leaf reached from target, exactly when an allowed
\* type of R subsumes source.
C10_DirectEdgeIffSubsumes ==
    (Answered("GetRelationshipEdges") /\ query.err = "") =>
        \A tr \in ThisRelationsReached(model, query.target) :
            HasDirectEdge(query.edges, tr)
                <=> \E A \in Range(GetDirectlyRelatedUserTypes(model, tr[1], tr[2])) :
                        Subsumes(A, query.source)

\* C10, amended: GetRelationshipEdges(target, source) has DirectEdge{R}, R a
\* relation with a This leaf reached from target, exactly when an allowed
\* type of R subsumes source or is the wildcard of the source's type, the
\* source being a userset type#relation included; no edge names another
\* relation, a wildcard source is not matched by the direct type, and allowed
\* types of another type never match.
C10_DirectEdgeIffSubsumesOrWildcard ==
    (Answered("GetRelationshipEdges") /\ query.err = "") =>
        /\ \A tr \in ThisRelationsReached(model, query.target) :
              HasDirectEdge(query.edges, tr)
                  <=> \E A \in Range(GetDirectlyRelatedUserTypes(model, tr[1], tr[2])) :
                          Subsumes(A, query.source) \/ (A.wild /\ A.type = query.source.type)
        /\ \A i \in DOMAIN query.edges :
              query.edges[i].Type = DirectEdge =>
                  <<query.edges[i].TargetReference.type, query.edges[i].TargetReference.rel>>
                      \in ThisRelationsReached(model, query.target)
        /\ \A tr \in ThisRelationsReached(model, query.target) :
              (\A A \in Range(GetDirectlyRelatedUserTypes(model, tr[1], tr[2])) :
                   A.type # query.source.type \/ (query.source.wild /\ ~A.wild))
                  => ~HasDirectEdge(query.edges, tr)

\* A userset source answered with a direct edge of a relation reached through
\* a hop, none of whose allowed types subsumes the source.
C10_Witness ==
    /\ Answered("GetRelationshipEdges") /\ query.err = ""
    /\ query.source.rel # ""
    /\ \E tr \in ThisRelationsReached(model, query.target) :
          /\ tr # <<query.target.type, query.target.rel>>
          /\ HasDirectEdge(query.edges, tr)
          /\ \A A \in Range(GetDirectlyRelatedUserTypes(model, tr[1], tr[2])) :
                 ~Subsumes(A, query.source)

\* The target of the query is a relation whose rewrite is an intersection or
\* a difference.
TargetCombines(m, target) ==
    /\ HasRelation(m, target.type, target.rel)
    /\ GetRewrite(m, target.type, target.rel).k \in {"inter", "diff"}

\* The edges of operand i of the target's rewrite, walked on its own.
OperandEdges(m, target, source, i) ==
    Range(getRelationshipEdgesWithTargetRewrite(
              m, target, source, GetRewrite(m, target.type, target.rel).ch[i],
              {<<target.type, target.rel>>}, ResolveAllEdges).edges)

Marked(e) == [e EXCEPT !.Condition = RequiresFurtherEvalCondition]

\* C11: for a relation whose rewrite is an intersection or a difference,
\* GetRelationshipEdges returns the edges of every operand (of both sides):
\* those of the first operand (the base) each with RequiresFurtherEval, those
\* of the other operands (the subtract) with the condition they have on
\* their own, and nothing else; for `allowed and self` the edge of `allowed`
\* is the one marked and the direct edge of the relation itself is not.
C11_EveryOperandFirstMarked ==
    /\ (Answered("GetRelationshipEdges") /\ query.err = ""
           /\ TargetCombines(model, query.target)) =>
          LET got == Range(query.edges)
              n == Len(GetRewrite(model, query.target.type, query.target.rel).ch)
              first == {Marked(e) : e \in OperandEdges(model, query.target, query.source, 1)}
              others == UNION {OperandEdges(model, query.target, query.source, i) : i \in 2..n}
          IN  /\ first \subseteq got
              /\ \A e \in others : e \in got \/ Marked(e) \in first
              /\ got \subseteq first \cup others
    /\ (/\ Answered("GetRelationshipEdges")
        /\ model = CaseModel(TestRelationshipEdges, "basic_relation_with_intersection_3")
        /\ query.target = DirectRelationReference("document", "viewer")
        /\ query.source = DirectRelationReference("user", "")) =>
          Range(query.edges) =
              {RelationshipEdge(DirectEdge, DirectRelationReference("document", "allowed"),
                                NoReference, RequiresFurtherEvalCondition),
               RelationshipEdge(DirectEdge, DirectRelationReference("document", "viewer"),
                                NoReference, NoFurtherEvalCondition)}

\* An intersection or a difference answered with an edge of its first operand
\* and an unmarked edge of another operand.
C11_Witness ==
    /\ Answered("GetRelationshipEdges") /\ query.err = ""
    /\ TargetCombines(model, query.target)
    /\ OperandEdges(model, query.target, query.source, 1) # {}
    /\ \E e \in OperandEdges(model, query.target, query.source, 2) :
          e.Condition = NoFurtherEvalCondition /\ e \in Range(query.edges)

\* C12 as stated: every edge of an intersection or of a difference, from any
\* operand or either side, carries RequiresFurtherEval.
C12_EveryOperandMarked ==
    (Answered("GetRelationshipEdges") /\ query.err = ""
        /\ TargetCombines(model, query.target)) =>
        \A i \in DOMAIN query.edges :
            query.edges[i].Condition = RequiresFurtherEvalCondition

\* C12: every edge of the first operand of an intersection, or of the base
\* of a difference, carries RequiresFurtherEval; an edge of another operand,
\* or of the subtract, carries it only when that operand's own walk marks it.
C12_FirstOperandMarked ==
    (Answered("GetRelationshipEdges") /\ query.err = ""
        /\ TargetCombines(model, query.target)) =>
        LET n == Len(GetRewrite(model, query.target.type, query.target.rel).ch)
            first == OperandEdges(model, query.target, query.source, 1)
            others == UNION {OperandEdges(model, query.target, query.source, i) : i \in 2..n}
        IN  /\ \A e \in first : Marked(e) \in Range(query.edges)
            /\ \A e \in first :
                   e.Condition = NoFurtherEvalCondition => e \notin Range(query.edges) \ others
            /\ \A e \in Range(query.edges) :
                   e.Condition = RequiresFurtherEvalCondition =>
                       e \in others \/ e \in {Marked(f) : f \in first}

\* The subtract of a difference answered with an edge that needs no further
\* evaluation, next to a marked edge of the base.
C12_Witness ==
    /\ Answered("GetRelationshipEdges") /\ query.err = ""
    /\ HasRelation(model, query.target.type, query.target.rel)
    /\ GetRewrite(model, query.target.type, query.target.rel).k = "diff"
    /\ \E e \in OperandEdges(model, query.target, query.source, 1) :
          e.Condition = NoFurtherEvalCondition /\ Marked(e) \in Range(query.edges)
    /\ \E e \in OperandEdges(model, query.target, query.source, 2) :
          e.Condition = NoFurtherEvalCondition /\ e \in Range(query.edges)

RECURSIVE FirstOperandOnly(_)
\* The rewrite with each intersection replaced by its first operand and each
\* difference by its base.
FirstOperandOnly(rw) ==
    IF rw.k \in {"inter", "diff"} THEN FirstOperandOnly(rw.ch[1])
    ELSE IF rw.k = "union"
    THEN Union([i \in DOMAIN rw.ch |-> FirstOperandOnly(rw.ch[i])])
    ELSE rw

\* The model with every rewrite so reduced.
FirstOperandsModel(m) ==
    [m EXCEPT !.tds =
        [i \in DOMAIN m.tds |->
            [m.tds[i] EXCEPT !.relations =
                [n \in DOMAIN m.tds[i].relations |->
                    FirstOperandOnly(m.tds[i].relations[n])]]]]

\* An edge without its condition.
EdgeKey(e) == <<e.Type, e.TargetReference, e.TuplesetRelation>>

InvolvesIntersectionOrExclusion(m, target) ==
    \/ RelationInvolvesIntersection(m, target.type, target.rel)
    \/ RelationInvolvesExclusion(m, target.type, target.rel)

\* C13: GetPrunedRelationshipEdges returns, for every intersection and
\* difference it meets, at the target or through tuple-to-userset and
\* computed-userset hops, the edges of the first operand (of the base) only,
\* each with RequiresFurtherEval: its edges are those of the model whose
\* intersections and differences are reduced to their first operand, and one
\* on a relation whose rewrite is an intersection or a difference is marked.
\* Where no intersection or exclusion is involved it returns the edges of
\* GetRelationshipEdges, all with NoFurtherEval.
C13_PrunedKeepsFirstOperand ==
    (Answered("GetPrunedRelationshipEdges") /\ query.err = "") =>
        LET all == GetRelationshipEdges(model, query.target, query.source)
            reduced == GetRelationshipEdges(FirstOperandsModel(model), query.target,
                                            query.source)
        IN  /\ reduced.err = ""
            /\ {EdgeKey(e) : e \in Range(query.edges)}
                   = {EdgeKey(e) : e \in Range(reduced.edges)}
            /\ \A e \in Range(query.edges) :
                   TargetCombines(model, e.TargetReference)
                       => e.Condition = RequiresFurtherEvalCondition
            /\ TargetCombines(model, query.target) =>
                   \A e \in Range(query.edges) : e.Condition = RequiresFurtherEvalCondition
            /\ ~InvolvesIntersectionOrExclusion(model, query.target) =>
                   /\ all.err = ""
                   /\ SameEdges(query.edges, all.edges)
                   /\ \A e \in Range(query.edges) : e.Condition = NoFurtherEvalCondition

\* An intersection or a difference met through a hop, answered with a marked
\* edge of its first operand and without an edge GetRelationshipEdges gives.
C13_Witness ==
    /\ Answered("GetPrunedRelationshipEdges") /\ query.err = ""
    /\ ~TargetCombines(model, query.target)
    /\ \E e \in Range(query.edges) :
          /\ e.Condition = RequiresFurtherEvalCondition
          /\ e.TargetReference # query.target
          /\ TargetCombines(model, e.TargetReference)
    /\ \E e \in Range(GetRelationshipEdges(model, query.target, query.source).edges) :
          EdgeKey(e) \notin {EdgeKey(f) : f \in Range(query.edges)}

\* The relations met on the way from target: those its rewrite leads to.
RelationsMet(m, target) == ReachableRelations(m, {<<target.type, target.rel>>}, {})

\* The tuple-to-userset leaves of (T, R) that lead to the userset source: the
\* computed relation is the source's, on a type the tupleset allows.
TupleToUsersetLeavesTo(m, tr, source) ==
    {l \in Leaves(GetRewrite(m, tr[1], tr[2])) :
        /\ l.k = "ttu" /\ l.rel = source.rel
        /\ HasRelation(m, tr[1], l.ts)
        /\ \E ref \in Range(GetDirectlyRelatedUserTypes(m, tr[1], l.ts)) :
               ref.type = source.type}

\* The computed-userset leaves of (T, R) that name the source's relation.
ComputedUsersetLeavesTo(m, tr, source) ==
    {l \in Leaves(GetRewrite(m, tr[1], tr[2])) :
        l.k = "cu" /\ l.rel = source.rel /\ tr[1] = source.type}

\* The rewrite of (T, R) holds an intersection or a difference.
CombinatorIn(m, tr) ==
    \/ RewriteContainsIntersection(GetRewrite(m, tr[1], tr[2]))
    \/ RewriteContainsExclusion(GetRewrite(m, tr[1], tr[2]))

\* A relation met from ref holds an intersection or a difference.
CombinatorMet(m, ref) == \E tr \in RelationsMet(m, ref) : CombinatorIn(m, tr)

TupleToUsersetEdgesOf(edges, tr, tupleset) ==
    {e \in Range(edges) :
        /\ e.Type = TupleToUsersetEdge
        /\ e.TargetReference = DirectRelationReference(tr[1], tr[2])
        /\ e.TuplesetRelation = DirectRelationReference(tr[1], tupleset)}

ComputedUsersetEdgesOf(edges, tr) ==
    {e \in Range(edges) :
        /\ e.Type = ComputedUsersetEdge
        /\ e.TargetReference = DirectRelationReference(tr[1], tr[2])}

\* The edges towards a userset source are those of the leaves that lead to
\* it, each on the relation that holds the leaf.
UsersetSourceEdgesOnLeaves ==
    /\ \A tr \in RelationsMet(model, query.target) :
          /\ \A l \in TupleToUsersetLeavesTo(model, tr, query.source) :
                 TupleToUsersetEdgesOf(query.edges, tr, l.ts) # {}
          /\ ComputedUsersetLeavesTo(model, tr, query.source) # {}
                 => ComputedUsersetEdgesOf(query.edges, tr) # {}
    /\ \A e \in Range(query.edges) :
          LET tr == <<e.TargetReference.type, e.TargetReference.rel>>
          IN  /\ e.Type = TupleToUsersetEdge =>
                    /\ tr \in RelationsMet(model, query.target)
                    /\ \E l \in TupleToUsersetLeavesTo(model, tr, query.source) :
                           e.TuplesetRelation = DirectRelationReference(tr[1], l.ts)
              /\ e.Type = ComputedUsersetEdge =>
                    /\ tr \in RelationsMet(model, query.target)
                    /\ ComputedUsersetLeavesTo(model, tr, query.source) # {}

CyclesThroughHops(m) ==
    \E tr \in AllRelations(m) : tr \in ReachableRelations(m, RelationSuccessors(m, tr), {})

\* C15: on a model NewAndValidate accepts, GetRelationshipEdges,
\* GetPrunedRelationshipEdges, RelationInvolvesIntersection and
\* RelationInvolvesExclusion return for every target, also where relations
\* lead back to themselves through a tuple-to-userset or through type
\* restrictions, and no (type, relation) frame is expanded more than once in
\* one call.
C15_WalkReturnsExpandingOnce ==
    /\ <>(pc = "answered")
    /\ [](\A frame \in DOMAIN expansions : expansions[frame] <= 1)

\* A query on the model of circular_reference, whose type restrictions refer
\* to each other, has returned; a frame was called again and expanded once.
C15_Witness ==
    /\ pc = "answered" /\ query.err = ""
    /\ model = CaseModel(TestRelationshipEdges, "circular_reference")
    /\ CyclesThroughHops(model)
    /\ \E frame \in DOMAIN calls : calls[frame] >= 2 /\ expansions[frame] = 1

\* The same on the model of cyclical_parent/child_definition, whose viewer
\* leads back to itself through a tuple-to-userset.
C15_TupleToUsersetCycleReturns ==
    /\ pc = "answered" /\ query.err = ""
    /\ model = CaseModel(TestRelationshipEdges, "cyclical_parent/child_definition")
    /\ \E frame \in DOMAIN calls : calls[frame] >= 2 /\ expansions[frame] = 1

\* The queries that fail on a target the model does not define.
FailingQueries ==
    {"RelationInvolvesIntersection", "RelationInvolvesExclusion", "IsTuplesetRelation",
     "GetRelationshipEdges"}

\* The model is one NewAndValidate accepts.
IsValidated(m) == m.schema \in {SchemaVersion1_0, SchemaVersion1_1} /\ Validates(m)

\* C16: RelationInvolvesIntersection, RelationInvolvesExclusion,
\* IsTuplesetRelation and GetRelationshipEdges return ErrObjectTypeUndefined
\* with false, or no edge, when the model has no such type,
\* ErrRelationUndefined when the type has no such relation, and on a
\* validated model no error otherwise.
C16_UndefinedTargetErrors ==
    (pc = "answered" /\ query.op \in FailingQueries) =>
        /\ ~HasType(model, query.target.type) =>
              /\ query.err = "ErrObjectTypeUndefined"
              /\ ~query.value /\ query.edges = <<>>
        /\ (HasType(model, query.target.type)
               /\ ~HasRelation(model, query.target.type, query.target.rel)) =>
              /\ query.err = "ErrRelationUndefined"
              /\ ~query.value /\ query.edges = <<>>
        /\ (IsValidated(model) /\ HasRelation(model, query.target.type, query.target.rel)) =>
              query.err = ""

\* On a validated model a boolean query was asked about a relation its type
\* does not define.
C16_Witness ==
    /\ Answered("IsTuplesetRelation")
    /\ IsValidated(model)
    /\ HasType(model, query.target.type)
    /\ query.err = "ErrRelationUndefined"

\* The same of GetRelationshipEdges about a type the model does not have.
C16_EdgesOfUndefinedType ==
    /\ Answered("GetRelationshipEdges")
    /\ IsValidated(model)
    /\ query.err = "ErrObjectTypeUndefined"

\* Without validation the walk fails elsewhere too: a tupleset may allow a
\* type the model does not have.
C16_UnvalidatedFailsInside ==
    /\ Answered("GetRelationshipEdges")
    /\ HasRelation(model, query.target.type, query.target.rel)
    /\ query.err # ""

\* a refers to b: by a computed userset on the same type, by a
\* tuple-to-userset whose tupleset allows the type of b, or by a userset
\* among its directly related user types.
RefersTo(m, a, b) ==
    \/ \E l \in Leaves(GetRewrite(m, a[1], a[2])) :
          \/ l.k = "cu" /\ b = <<a[1], l.rel>>
          \/ /\ l.k = "ttu" /\ b[2] = l.rel
             /\ HasRelation(m, a[1], l.ts)
             /\ \E ref \in Range(GetDirectlyRelatedUserTypes(m, a[1], l.ts)) :
                    ref.type = b[1]
    \/ \E ref \in Range(GetDirectlyRelatedUserTypes(m, a[1], a[2])) :
          ref.rel # "" /\ b = <<ref.type, ref.rel>>

RECURSIVE ComingTo(_, _)
\* The relations that come, along such references, to a relation of S; those
\* of S among them.
ComingTo(m, S) ==
    LET next == S \cup {a \in AllRelations(m) : \E b \in S : RefersTo(m, a, b)}
    IN  IF next = S THEN S ELSE ComingTo(m, next)

\* C17: RelationInvolvesIntersection(type, relation) is true exactly when the
\* rewrite of the relation or of one it comes to, along computed usersets,
\* tuple-to-usersets over every type the tupleset allows and usersets of the
\* directly related user types, holds an Intersection; RelationInvolvesExclusion
\* likewise for a Difference; both are false where the references only cycle.
C17_InvolvesIffReachable ==
    /\ (Answered("RelationInvolvesIntersection") /\ query.err = "") =>
          (query.value <=>
              <<query.target.type, query.target.rel>> \in
                  ComingTo(model, {b \in AllRelations(model) :
                                      RewriteContainsIntersection(GetRewrite(model, b[1], b[2]))}))
    /\ (Answered("RelationInvolvesExclusion") /\ query.err = "") =>
          (query.value <=>
              <<query.target.type, query.target.rel>> \in
                  ComingTo(model, {b \in AllRelations(model) :
                                      RewriteContainsExclusion(GetRewrite(model, b[1], b[2]))}))

\* An intersection found only through a userset of the directly related user
\* types.
C17_Witness ==
    /\ Answered("RelationInvolvesIntersection") /\ query.value
    /\ \A b \in ReachableRelations(
                    model, RelationSuccessorsOfRewrite(
                               model, <<query.target.type, query.target.rel>>), {}) :
           ~RewriteContainsIntersection(GetRewrite(model, b[1], b[2]))
    /\ ~RewriteContainsIntersection(
           GetRewrite(model, query.target.type, query.target.rel))

\* A relation that comes back to itself, asked about, with no intersection
\* or difference on the way: the answer is false.
C17_CycleIsFalse ==
    /\ pc = "answered" /\ query.err = "" /\ ~query.value
    /\ query.op \in {"RelationInvolvesIntersection", "RelationInvolvesExclusion"}
    /\ \E b \in AllRelations(model) :
          /\ RefersTo(model, <<query.target.type, query.target.rel>>, b)
          /\ b \in ComingTo(model, {<<query.target.type, query.target.rel>>})

RECURSIVE NamesTupleset(_, _)
\* The rewrite holds, at any depth, a tuple-to-userset whose tupleset is R.
NamesTupleset(rw, R) ==
    \/ rw.k = "ttu" /\ rw.ts = R
    \/ \E i \in DOMAIN rw.ch : NamesTupleset(rw.ch[i], R)

RECURSIVE Depth(_)
\* The nesting of a rewrite: 0 for a leaf.
Depth(rw) ==
    IF rw.ch = <<>> THEN 0
    ELSE 1 + (CHOOSE d \in {Depth(rw.ch[i]) : i \in DOMAIN rw.ch} :
                 \A i \in DOMAIN rw.ch : Depth(rw.ch[i]) <= d)

\* C18: IsTuplesetRelation(type, relation) is true exactly when the relation
\* is the tupleset of a tuple-to-userset in the rewrite of some relation of
\* that type, under any nesting of union, intersection and exclusion; the
\* relation that holds the tuple-to-userset is not reported for holding it.
C18_TuplesetOfSomeRelation ==
    (Answered("IsTuplesetRelation") /\ query.err = "") =>
        /\ query.value <=>
              \E R2 \in RelationNames(model, query.target.type) :
                  NamesTupleset(GetRewrite(model, query.target.type, R2), query.target.rel)
        /\ (\A R2 \in RelationNames(model, query.target.type) :
                \A l \in Leaves(GetRewrite(model, query.target.type, R2)) :
                    l.k = "ttu" => l.ts # query.target.rel)
              => ~query.value

\* A tupleset found two levels down, under a difference inside a union.
C18_Witness ==
    /\ Answered("IsTuplesetRelation") /\ query.value
    /\ \E R2 \in RelationNames(model, query.target.type) :
          LET rw == GetRewrite(model, query.target.type, R2)
          IN  /\ Depth(rw) >= 2
              /\ NamesTupleset(rw, query.target.rel)
              /\ R2 # query.target.rel

\* The relation that holds a tuple-to-userset, asked about: false.
C18_HolderIsNotReported ==
    /\ Answered("IsTuplesetRelation") /\ query.err = "" /\ ~query.value
    /\ \E l \in Leaves(GetRewrite(model, query.target.type, query.target.rel)) : l.k = "ttu"

\* The directly related user types of the target of the query.
AllowedTypes == Range(GetDirectlyRelatedUserTypes(model, query.target.type, query.target.rel))

\* C19 as stated: IsDirectlyRelated follows the subsumption rules, by which
\* an allowed `type:*` takes a direct source `type` too: for
\* `viewer: [user:*]`, IsDirectlyRelated(document#viewer, user) is true.
C19_FollowsSubsumption ==
    Answered("IsDirectlyRelated") =>
        (query.value <=> \E A \in AllowedTypes : Subsumes(A, query.source))

\* C19: IsDirectlyRelated(target, source) is true exactly when the source is
\* itself one of the allowed types of the target: an allowed `type:*` takes
\* the wildcard source `type:*` only, an allowed direct `type` the direct
\* source `type` only, an allowed `type#rel` the source `type#rel` only;
\* different types never match. For `viewer: [user:*]`,
\* IsDirectlyRelated(document#viewer, user) is false.
C19_SourceAmongAllowedTypes ==
    /\ Answered("IsDirectlyRelated") =>
          /\ query.err = ""
          /\ query.value <=> query.source \in AllowedTypes
    /\ (/\ Answered("IsDirectlyRelated")
        /\ model = CaseModel(TestIsDirectlyRelated, "wildcard_and_direct")
        /\ query.target = DirectRelationReference("document", "viewer")
        /\ query.source = DirectRelationReference("user", "")) => ~query.value

\* A direct source asked of a relation that allows the wildcard of its type
\* and not the type itself: false.
C19_Witness ==
    /\ Answered("IsDirectlyRelated") /\ ~query.value
    /\ ~query.source.wild /\ query.source.rel = ""
    /\ WildcardRelationReference(query.source.type) \in AllowedTypes

RECURSIVE UsersetChain(_, _, _)
\* The relations reached from those of `frontier` through the usersets among
\* the directly related user types, `seen` included.
UsersetChain(m, frontier, seen) ==
    LET fresh == {tr \in frontier : HasRelation(m, tr[1], tr[2])} \ seen
        usersets(tr) == {<<ref.type, ref.rel>> :
                            ref \in {x \in Range(GetDirectlyRelatedUserTypes(m, tr[1], tr[2])) :
                                        x.rel # ""}}
    IN  IF fresh = {} THEN seen
        ELSE UsersetChain(m, UNION {usersets(tr) : tr \in fresh}, seen \cup fresh)

\* C20 as stated: IsPubliclyAssignable(target, object_type) is true exactly
\* when object_type:* is an allowed type of the target or of a relation
\* reached from it through a chain of userset allowed types.
C20_WildcardThroughUsersets ==
    Answered("IsPubliclyAssignable") =>
        (query.value <=>
            \E tr \in UsersetChain(model, {<<query.target.type, query.target.rel>>}, {}) :
                query.source \in Range(GetDirectlyRelatedUserTypes(model, tr[1], tr[2])))

\* C20: IsPubliclyAssignable(target, object_type) is true exactly when the
\* wildcard object_type:* is itself one of the allowed types of the target;
\* a wildcard reached through a userset allowed type, a wildcard of another
\* type and a direct type never make it true.
C20_WildcardAmongAllowedTypes ==
    Answered("IsPubliclyAssignable") =>
        /\ query.err = ""
        /\ query.source.wild
        /\ query.value <=> query.source \in AllowedTypes

\* The wildcard of the type is allowed by a relation the target allows as a
\* userset, not by the target: false.
C20_Witness ==
    /\ Answered("IsPubliclyAssignable") /\ ~query.value
    /\ \E ref \in AllowedTypes :
          /\ ref.rel # "" /\ HasRelation(model, ref.type, ref.rel)
          /\ query.source \in Range(GetDirectlyRelatedUserTypes(model, ref.type, ref.rel))

RECURSIVE WithoutCombinator(_, _)
\* The rewrite with each combinator of kind k replaced by its first operand.
WithoutCombinator(rw, k) ==
    IF rw.k = k THEN WithoutCombinator(rw.ch[1], k)
    ELSE IF rw.ch # <<>>
    THEN [rw EXCEPT !.ch = [i \in DOMAIN rw.ch |-> WithoutCombinator(rw.ch[i], k)]]
    ELSE rw

\* The model without the combinators of kind k.
ModelWithout(m, k) ==
    [m EXCEPT !.tds =
        [i \in DOMAIN m.tds |->
            [m.tds[i] EXCEPT !.relations =
                [n \in DOMAIN m.tds[i].relations |->
                    WithoutCombinator(m.tds[i].relations[n], k)]]]]

\* The sources for which the pruned edges of target hold a marked edge.
MarkedSources(m, target) ==
    {source \in QuerySources(m) :
        \E e \in Range(GetPrunedRelationshipEdges(m, target, source).edges) :
            e.Condition = RequiresFurtherEvalCondition}

\* A pruned edge of target is marked because of an intersection: it is
\* marked still when every difference is replaced by its base. The pruned
\* walk enters the base only, so it meets the same frames.
MarkedByIntersection(m, target) == MarkedSources(ModelWithout(m, "diff"), target) # {}

\* The same because of a difference, the intersections replaced by their
\* first operand.
MarkedByDifference(m, target) == MarkedSources(ModelWithout(m, "inter"), target) # {}

ReachableAllowedTypes(m, target) ==
    UNION {Range(GetDirectlyRelatedUserTypes(m, tr[1], tr[2])) : tr \in RelationsMet(m, target)}

\* The sources among them from which the graph has an edge to the target.
ConnectedSources(m, target) ==
    {S \in ReachableAllowedTypes(m, target) : GetRelationshipEdges(m, target, S).edges # <<>>}

C30_PrunedEdgesAmongAll ==
    (Answered("GetPrunedRelationshipEdges") /\ query.err = "") =>
        Range(query.edges) \subseteq
            Range(GetRelationshipEdges(model, query.target, query.source).edges)

(***************************************************************************)
(* The server's requests: src/server/server.go.  One store; the handlers   *)
(* that resolve an authorization model ID, and WriteAuthorizationModel.    *)
(***************************************************************************)
\* The type system plays no part in the server's specifications.
typesystem == <<model, pc, err, marked, round, query, walk>>

NoTypeSystem ==
    /\ model = AuthorizationModel("", <<>>)
    /\ pc = "server"
    /\ err = NoError
    /\ marked = {}
    /\ round = 0
    /\ query = NoQuery
    /\ NoWalk

\* The authorization models written to the store, at most.
MaxModels == 2

\* The IDs the store gives to the models written, in this order.
AuthorizationModelIds == <<"01GA", "01GB", "01GC", "01GD">>

\* An ID no model of the store has.
UnknownModelId == "01GZ"

\* Two request goroutines of the gRPC server.
Requests == {"first", "second"}

Methods == {"Read", "Write", "Check", "Expand", "WriteAssertions", "ReadAssertions"}

\* The authorization_model_id a request may carry: none, a written or
\* not yet written ID, an unknown one.
GivenModelIds ==
    {""} \cup {AuthorizationModelIds[i] : i \in 1..MaxModels} \cup {UnknownModelId}

IdleRequest ==
    [pc |-> "idle", method |-> "", given |-> "", modelID |-> "", executed |-> "", err |-> ""]

\* What resolveAuthorizationModelId returns.
Resolved(id, error) == [id |-> id, err |-> error]

\* AuthorizationModelBackend.FindLatestAuthorizationModelID.
FindLatestAuthorizationModelID(written) ==
    IF written = <<>> THEN Resolved("", "NotFound")
    ELSE Resolved(written[Len(written)], "")

\* AuthorizationModelBackend.ReadAuthorizationModel: the error only.
ReadAuthorizationModel(written, id) ==
    IF id \in Range(written) THEN "" ELSE "NotFound"

\* The ID a request carries when it gives one, the store's latest when it
\* gives none; the model of that ID is then read.  failure names the
\* backend call that fails for another reason than NotFound, if any.
resolveAuthorizationModelId(written, authorizationModelId, failure) ==
    LET latest == IF authorizationModelId # "" THEN Resolved(authorizationModelId, "")
                  ELSE IF failure = "FindLatestAuthorizationModelID"
                  THEN Resolved("", "HandleError")
                  ELSE IF FindLatestAuthorizationModelID(written).err = "NotFound"
                  THEN Resolved("", "LatestAuthorizationModelNotFound")
                  ELSE FindLatestAuthorizationModelID(written)
    IN  IF latest.err # "" THEN latest
        ELSE IF failure = "ReadAuthorizationModel" THEN Resolved("", "HandleError")
        ELSE IF ReadAuthorizationModel(written, latest.id) = "NotFound"
        THEN Resolved("", "AuthorizationModelNotFound")
        ELSE latest

BackendFailures == {"", "FindLatestAuthorizationModelID", "ReadAuthorizationModel"}

\* A variant of ExecutedModelId that passes the request's own ID on.
RequestModelId(method, given, modelID) == given

\* The authorization model ID in the request the handler hands to its
\* command or query: Read, Write, Check and Expand build a new request with
\* the resolved ID; WriteAssertions hands over the request it received and
\* ReadAssertions the ID of that request.
ExecutedModelId(method, given, modelID) ==
    IF method \in {"WriteAssertions", "ReadAssertions"} THEN given ELSE modelID

RpcInit ==
    /\ NoTypeSystem
    /\ models = <<>>
    /\ requests = [r \in Requests |-> IdleRequest]
    /\ call = <<>>
    /\ run = <<>>

\* A request arrives at its handler.
Receive(r) ==
    /\ requests[r].pc = "idle"
    /\ \E method \in Methods, given \in GivenModelIds :
          requests' = [requests EXCEPT ![r] =
                          [IdleRequest EXCEPT !.pc = "resolve", !.method = method,
                                              !.given = given]]
    /\ UNCHANGED <<typesystem, models, call, run>>

\* The handler's first step: resolveAuthorizationModelId, and the return of
\* its error.  Models are never removed, so the two reads of the backend
\* are taken as one step.
Resolve(r) ==
    /\ requests[r].pc = "resolve"
    /\ \E failure \in BackendFailures :
          LET res == resolveAuthorizationModelId(models, requests[r].given, failure)
          IN  requests' = [requests EXCEPT ![r] =
                              IF res.err # ""
                              THEN [@ EXCEPT !.pc = "done", !.err = res.err]
                              ELSE [@ EXCEPT !.pc = "execute", !.modelID = res.id]]
    /\ UNCHANGED <<typesystem, models, call, run>>

\* The handler's second step: the command or query executes.
Execute(r) ==
    /\ requests[r].pc = "execute"
    /\ LET req == requests[r]
       IN  requests' = [requests EXCEPT ![r] =
                           [req EXCEPT !.pc = "done",
                                       !.executed = ExecutedModelId(req.method, req.given,
                                                                    req.modelID)]]
    /\ UNCHANGED <<typesystem, models, call, run>>

\* The response is sent; the goroutine takes the next request.
Reply(r) ==
    /\ requests[r].pc = "done"
    /\ requests' = [requests EXCEPT ![r] = IdleRequest]
    /\ UNCHANGED <<typesystem, models, call, run>>

\* WriteAuthorizationModel completes: the store has a new latest model.
WriteAuthorizationModel ==
    /\ Len(models) < MaxModels
    /\ models' = Append(models, AuthorizationModelIds[Len(models) + 1])
    /\ UNCHANGED <<typesystem, requests, call, run>>

RpcNext ==
    \/ \E r \in Requests : Receive(r)
    \/ \E r \in Requests : Resolve(r)
    \/ \E r \in Requests : Execute(r)
    \/ \E r \in Requests : Reply(r)
    \/ WriteAuthorizationModel

RpcSpec == RpcInit /\ [][RpcNext]_vars

(***************************************************************************)
(* The interceptors in front of the handlers: the request-ID interceptor   *)
(* (src/unnamed/part_001), the OIDC scope interceptor                      *)
(* (src/pkg/authorizer/oidc/oidc.go) and the OpenFGA authorizer middleware *)
(* (src/plugins/authorizer.go).  One call passes through one of them.      *)
(***************************************************************************)
requestIDCtxKey == "request-id"

requestIDHeader == "x-request-id"

\* The FullMethod the gRPC server gives to an interceptor for the RPCs of
\* the service registered by New.
ServiceMethods ==
    {"/openfga.v1.OpenFGAService/CreateStore", "/openfga.v1.OpenFGAService/Write",
     "/openfga.v1.OpenFGAService/Read", "/openfga.v1.OpenFGAService/Check"}

\* The FullMethod of a call: one of the service's, or, when the interceptor
\* is called directly, one of the strings its switch names.
FullMethods ==
    ServiceMethods \cup {"openfga.v1.OpenFGAService/Write", "openfga.v1.OpenFGAservice/Read",
                         "/openfga.v1.OpenFGAservice/Read"}

Scopes == {"openfga:read", "openfga:write"}

\* The context tags: those of the ctxtags interceptor, or the no-op tags
\* Extract returns for a context that interceptor has not been through.
NoopTags == [noop |-> TRUE, values |-> {}]

NewTags == [noop |-> FALSE, values |-> {}]

\* A variant of TagsSet that sets nothing.
TagsUnset(tags, key, value) == tags

\* Tags.Set: no-op tags stay empty.
TagsSet(tags, key, value) ==
    IF tags.noop THEN tags
    ELSE [tags EXCEPT !.values = {kv \in @ : kv[1] # key} \cup {<<key, value>>}]

\* Tags.Has.
TagsHas(tags, key) == \E kv \in tags.values : kv[1] = key

\* A call before any interceptor has seen it.
Call(interceptor, kind, fullMethod, claims, scopes, ctxtags, traced) ==
    [interceptor |-> interceptor, kind |-> kind, FullMethod |-> fullMethod,
     claims |-> claims, scopes |-> scopes, ctxtags |-> ctxtags, traced |-> traced,
     pc |-> "received", tags |-> NoopTags, header |-> {}, requestID |-> "",
     authorized |-> [Object |-> "", Relation |-> "", Allowed |-> FALSE, err |-> FALSE],
     handlerCalls |-> 0, handlerTags |-> NoopTags, handlerCode |-> "", code |-> ""]

CallInit ==
    /\ NoTypeSystem
    /\ models = <<>>
    /\ requests = <<>>
    /\ run = <<>>
    /\ call \in
          {Call("requestid", kind, "/testing.testpb.v1.TestService/Ping", FALSE, {},
                ctxtags, traced) :
              kind \in {"unary", "stream"}, ctxtags \in BOOLEAN, traced \in BOOLEAN}
          \cup {Call(interceptor, "unary", fullMethod, claims, scopes, FALSE, FALSE) :
                  interceptor \in {"oidc", "openfga"}, fullMethod \in FullMethods,
                  claims \in BOOLEAN, scopes \in SUBSET Scopes}

\* The interceptor hands the call to the next handler, with the tags the
\* context carries then.
Invoked(c) ==
    [c EXCEPT !.pc = "handler", !.handlerCalls = @ + 1, !.handlerTags = c.tags]

\* The interceptor answers with a status of its own.
Rejected(c, code) == [c EXCEPT !.pc = "returned", !.code = code]

\* grpc_ctxtags.UnaryServerInterceptor and StreamServerInterceptor, when
\* chained: the context gets tags.
Ctxtags ==
    /\ call.interceptor = "requestid" /\ call.pc = "received"
    /\ call' = [call EXCEPT !.pc = "reporting",
                             !.tags = IF call.ctxtags THEN NewTags ELSE NoopTags]
    /\ UNCHANGED <<typesystem, models, requests, run>>

\* interceptors.UnaryServerInterceptor(reportable()) and its streaming
\* twin: the request ID is the trace ID or a random UUID, it is set in the
\* tags and sent as a header, whose error is dropped; then the handler.
reportable ==
    /\ call.interceptor = "requestid" /\ call.pc = "reporting"
    /\ \E headerSent \in BOOLEAN :
          LET requestID == IF call.traced THEN "trace-id" ELSE "uuid"
              tagged == [call EXCEPT !.requestID = requestID,
                                     !.tags = TagsSet(@, requestIDCtxKey, requestID),
                                     !.header = IF headerSent THEN {requestIDHeader} ELSE {}]
          IN  call' = Invoked(tagged)
    /\ UNCHANGED <<typesystem, models, requests, run>>

\* A variant of HasScope that takes any claims.
HasClaims(scopes, requiredScope) == TRUE

\* The loop over claims.Scopes.
HasScope(scopes, requiredScope) == requiredScope \in scopes

\* The switch of the OIDC scope interceptor on info.FullMethod; "" for
\* its default branch.
RequiredScope(fullMethod) ==
    CASE fullMethod = "openfga.v1.OpenFGAService/Write" -> "openfga:write"
      [] fullMethod = "openfga.v1.OpenFGAservice/Read" -> "openfga:read"
      [] OTHER -> ""

OIDCScopeAuthorizerFunc ==
    /\ call.interceptor = "oidc" /\ call.pc = "received"
    /\ call' = IF ~call.claims THEN Rejected(call, "Unauthenticated")
               ELSE IF RequiredScope(call.FullMethod) = ""
               THEN Rejected(call, "PermissionDenied")
               ELSE IF HasScope(call.scopes, RequiredScope(call.FullMethod))
               THEN Invoked(call)
               ELSE Rejected(call, "PermissionDenied")
    /\ UNCHANGED <<typesystem, models, requests, run>>

\* The store every request is authorized against.
AuthorizerStoreId == "01GHJ1WH1MXDRA89XK2JXEP1RM"

\* The switch of the OpenFGA authorizer middleware on info.FullMethod: the
\* object and the relation to check; no relation for its default branch.
AuthorizedRequest(fullMethod) ==
    CASE fullMethod = "/openfga.v1.OpenFGAService/CreateStore" ->
            [Object |-> "_openfga:root", Relation |-> "create_store"]
      [] fullMethod = "/openfga.v1.OpenFGAService/Write" ->
            [Object |-> "store:" \o AuthorizerStoreId, Relation |-> "tuple_writer"]
      [] fullMethod = "/openfga.v1.OpenFGAservice/Read" ->
            [Object |-> "store:" \o AuthorizerStoreId, Relation |-> "tuple_reader"]
      [] OTHER -> [Object |-> "", Relation |-> ""]

\* The middleware up to its call of Authorized.
AuthorizerMiddlewareFunc ==
    /\ call.interceptor = "openfga" /\ call.pc = "received"
    /\ LET req == AuthorizedRequest(call.FullMethod)
       IN  call' = IF ~call.claims THEN Rejected(call, "Unauthenticated")
                   ELSE IF req.Relation = "" THEN Invoked(call)
                   ELSE [call EXCEPT !.pc = "authorizing",
                                     !.authorized.Object = req.Object,
                                     !.authorized.Relation = req.Relation]
    /\ UNCHANGED <<typesystem, models, requests, run>>

\* Authorized, a Check on the server, and what the middleware does with its
\* answer: an error ends the process in log.Fatal.
Authorized ==
    /\ call.interceptor = "openfga" /\ call.pc = "authorizing"
    /\ \E check \in {"allowed", "denied", "error"} :
          LET resp == [call.authorized EXCEPT !.Allowed = (check = "allowed"),
                                              !.err = (check = "error")]
              answered == [call EXCEPT !.authorized = resp]
          IN  call' = IF resp.err THEN [answered EXCEPT !.pc = "exited"]
                      ELSE IF resp.Allowed THEN Invoked(answered)
                      ELSE Rejected(answered, "PermissionDenied")
    /\ UNCHANGED <<typesystem, models, requests, run>>

\* The handler returns, and the interceptor returns what it returned.
HandlerReturns ==
    /\ call.pc = "handler"
    /\ \E code \in {"OK", "Internal"} :
          call' = [call EXCEPT !.pc = "returned", !.handlerCode = code, !.code = code]
    /\ UNCHANGED <<typesystem, models, requests, run>>

CallNext ==
    \/ Ctxtags
    \/ reportable
    \/ OIDCScopeAuthorizerFunc
    \/ AuthorizerMiddlewareFunc
    \/ Authorized
    \/ HandlerReturns

CallSpec == CallInit /\ [][CallNext]_vars

(***************************************************************************)
(* Server.Run (src/server/server.go): the goroutine of Run, the goroutines *)
(* it starts for the gRPC and the HTTP server, and the one http.Server     *)
(* starts at Shutdown for the function registered with RegisterOnShutdown. *)
(***************************************************************************)
\* The connections open at once to each of the two servers, at most.
MaxConnections == 3

RunInit ==
    /\ NoTypeSystem
    /\ models = <<>>
    /\ requests = <<>>
    /\ call = <<>>
    /\ run = [pc |-> "start", result |-> "", grpc |-> "new", http |-> "new",
              cancelled |-> FALSE, onShutdown |-> "none", connections |-> 0,
              accepted |-> 0]

\* net.Listen, and `go s.Serve(lis)` when it succeeds.
Listen ==
    /\ run.pc = "start"
    /\ \/ run' = [run EXCEPT !.pc = "listening", !.grpc = "listening"]
       \/ run' = [run EXCEPT !.pc = "returned", !.result = "ListenError"]
    /\ UNCHANGED <<typesystem, models, requests, call>>

\* The goroutine of s.Serve(lis) accepts connections.
Serve ==
    /\ run.grpc = "listening"
    /\ run' = [run EXCEPT !.grpc = "serving"]
    /\ UNCHANGED <<typesystem, models, requests, call>>

\* The gRPC server accepts a connection while it serves, whether Run has
\* returned or not; a client closes one.
Accept ==
    /\ run.grpc = "serving"
    /\ run.accepted < MaxConnections
    /\ run' = [run EXCEPT !.accepted = @ + 1]
    /\ UNCHANGED <<typesystem, models, requests, call>>

Close ==
    /\ run.accepted > 0
    /\ run' = [run EXCEPT !.accepted = @ - 1]
    /\ UNCHANGED <<typesystem, models, requests, call>>

\* RegisterOpenFGAServiceHandlerFromEndpoint dials the gRPC server,
\* blocking; then the HTTP server is built, s.Stop registered for its
\* shutdown, and its goroutine started.  An error of the registration, the
\* context's cancellation among its causes, is returned.
RegisterHandler ==
    /\ run.pc = "listening"
    /\ \/ /\ run.grpc = "serving"
          /\ run' = [run EXCEPT !.pc = "waiting", !.http = "starting",
                                 !.onShutdown = "registered"]
       \/ run' = [run EXCEPT !.pc = "returned", !.result = "RegisterError"]
    /\ UNCHANGED <<typesystem, models, requests, call>>

\* The goroutine of httpServer.ListenAndServe: it serves, or fails and logs.
ListenAndServe ==
    /\ run.http = "starting"
    /\ \/ run' = [run EXCEPT !.http = "serving"]
       \/ run' = [run EXCEPT !.http = "failed"]
    /\ UNCHANGED <<typesystem, models, requests, call>>

\* A client opens an HTTP connection, or one becomes idle and closes.
Connect ==
    /\ run.http = "serving"
    /\ run.connections < MaxConnections
    /\ run' = [run EXCEPT !.connections = @ + 1]
    /\ UNCHANGED <<typesystem, models, requests, call>>

Disconnect ==
    /\ run.connections > 0
    /\ run' = [run EXCEPT !.connections = @ - 1]
    /\ UNCHANGED <<typesystem, models, requests, call>>

\* The context of Run is cancelled.
Cancel ==
    /\ ~run.cancelled
    /\ run.pc # "returned"
    /\ run' = [run EXCEPT !.cancelled = TRUE]
    /\ UNCHANGED <<typesystem, models, requests, call>>

\* http.Server.Shutdown starts each function registered for it in a
\* goroutine of its own.
StartedOnShutdown(registered) == IF registered = "registered" THEN "started" ELSE registered

\* <-ctx.Done() returns and httpServer.Shutdown begins: the listeners are
\* closed and the registered functions started.
Shutdown ==
    /\ run.pc = "waiting"
    /\ run.cancelled
    /\ run' = [run EXCEPT !.pc = "shutdown", !.http = "closed",
                           !.onShutdown = StartedOnShutdown(@)]
    /\ UNCHANGED <<typesystem, models, requests, call>>

\* Shutdown returns nil when no connection is open, or the error of its
\* five-second context while some are; Run returns the same.
ShutdownReturns ==
    /\ run.pc = "shutdown"
    /\ \/ /\ run.connections = 0
          /\ run' = [run EXCEPT !.pc = "returned", !.result = "nil"]
       \/ /\ run.connections > 0
          /\ run' = [run EXCEPT !.pc = "returned", !.result = "ShutdownError"]
    /\ UNCHANGED <<typesystem, models, requests, call>>

\* The goroutine of the registered function: s.Stop() closes the listener
\* and every connection.
Stop ==
    /\ run.onShutdown = "started"
    /\ run' = [run EXCEPT !.onShutdown = "done", !.grpc = "stopped", !.accepted = 0]
    /\ UNCHANGED <<typesystem, models, requests, call>>

RunNext ==
    \/ Listen
    \/ Serve
    \/ Accept
    \/ Close
    \/ RegisterHandler
    \/ ListenAndServe
    \/ Connect
    \/ Disconnect
    \/ Cancel
    \/ Shutdown
    \/ ShutdownReturns
    \/ Stop

\* Every goroutine that can take a step takes it in the end; clients and
\* the cancellation come when they will.
RunSpec ==
    /\ RunInit
    /\ [][RunNext]_vars
    /\ WF_vars(Listen) /\ WF_vars(Serve) /\ WF_vars(RegisterHandler)
    /\ WF_vars(ListenAndServe) /\ WF_vars(Shutdown) /\ WF_vars(ShutdownReturns)
    /\ WF_vars(Stop)

ResolvingMethods == {"Read", "Write", "Check", "Expand"}

\* C23: Read, Write, Check and Expand resolve the authorization model ID
\* once, to the ID given or to the store's latest when none is given, and
\* execute with exactly that ID; a WriteAuthorizationModel that completes in
\* between leaves the ID of a request in flight as it is, and a request
\* without an ID that resolves later takes the newly written model.
C23_ExecutesWithResolvedId ==
    [][\A r \in Requests :
          LET before == requests[r]
              after == requests'[r]
          IN  /\ (before.pc = "resolve" /\ after.pc = "execute") =>
                    /\ after.modelID = (IF before.given # "" THEN before.given
                                        ELSE models[Len(models)])
                    /\ after.modelID \in Range(models)
              /\ (before.pc = "execute" /\ before.method \in ResolvingMethods) =>
                    /\ after.modelID = before.modelID
                    /\ after.pc = "done" => after.executed = before.modelID
              /\ (before.pc = "idle" /\ after.pc # "idle") => after.pc = "resolve"
       ]_vars

\* A request without an ID executed with the model it resolved although a
\* newer one was written meanwhile, which a later request has resolved.
C23_Witness ==
    \E r, later \in Requests :
        /\ requests[r].pc = "done" /\ requests[r].method \in ResolvingMethods
        /\ requests[r].given = "" /\ requests[r].err = ""
        /\ requests[r].executed = models[1]
        /\ Len(models) > 1
        /\ requests[later].pc = "execute" /\ requests[later].given = ""
        /\ requests[later].modelID = models[Len(models)]
        /\ requests[later].modelID # requests[r].executed

\* C25: WriteAssertions and ReadAssertions execute with the authorization
\* model ID that resolveAuthorizationModelId returned: for a request without
\* an ID, with the store's latest ID and not with the empty one.
C25_AssertionsUseResolvedId ==
    \A r \in Requests :
        (requests[r].pc = "done" /\ requests[r].err = ""
            /\ requests[r].method \in {"WriteAssertions", "ReadAssertions"})
            => requests[r].executed = requests[r].modelID

\* C24: for a unary and for a streaming call that passes through the
\* request-ID interceptor chained after the ctxtags interceptor, the tags of
\* the context hold `request-id` when the handler is invoked and from then
\* on; the interceptor invokes the handler once, never answers in its place,
\* and returns what the handler returned.
C24_RequestIdSetBeforeHandler ==
    (call.interceptor = "requestid" /\ call.ctxtags) =>
        /\ call.handlerCalls > 0 =>
              /\ TagsHas(call.handlerTags, requestIDCtxKey)
              /\ TagsHas(call.tags, requestIDCtxKey)
              /\ <<requestIDCtxKey, call.requestID>> \in call.tags.values
              /\ call.requestID # ""
        /\ call.pc = "handler" => call.handlerCalls = 1
        /\ call.pc = "returned" => (call.handlerCalls = 1 /\ call.code = call.handlerCode)
        /\ call.pc \in {"received", "reporting", "handler", "returned"}

\* A streaming call without a trace, whose header could not be sent, is in
\* its handler with the tag set.
C24_Witness ==
    /\ call.interceptor = "requestid" /\ call.ctxtags /\ call.kind = "stream"
    /\ ~call.traced /\ call.header = {}
    /\ call.pc = "handler"
    /\ TagsHas(call.handlerTags, requestIDCtxKey)

\* The methods the OIDC scope interceptor recognises, with their scopes.
OIDCMethods ==
    {<<"openfga.v1.OpenFGAService/Write", "openfga:write">>,
     <<"openfga.v1.OpenFGAservice/Read", "openfga:read">>}

OIDCAllows(c) == c.claims /\ \E ms \in OIDCMethods : ms[1] = c.FullMethod /\ ms[2] \in c.scopes

\* C26: the OIDC scope interceptor invokes the handler at most once, and
\* only for a call with auth claims, a method it recognises and the scope of
\* that method among the claims' scopes; without claims it answers
\* Unauthenticated, for another method or a missing scope PermissionDenied,
\* the handler not invoked.
C26_OidcInvokesOnlyWithScope ==
    call.interceptor = "oidc" =>
        /\ call.handlerCalls <= 1
        /\ call.handlerCalls = 1 => OIDCAllows(call)
        /\ (call.pc = "returned" /\ ~call.claims) =>
              (call.code = "Unauthenticated" /\ call.handlerCalls = 0)
        /\ (call.pc = "returned" /\ call.claims /\ ~OIDCAllows(call)) =>
              (call.code = "PermissionDenied" /\ call.handlerCalls = 0)
        /\ (call.pc = "returned" /\ OIDCAllows(call)) =>
              (call.handlerCalls = 1 /\ call.code = call.handlerCode)

\* A call with both scopes for the interceptor's Read string is in its
\* handler.
C26_Witness ==
    /\ call.interceptor = "oidc" /\ call.pc = "handler" /\ call.handlerCalls = 1
    /\ call.FullMethod = "openfga.v1.OpenFGAservice/Read"
    /\ call.scopes = Scopes

\* A call of the Write RPC with the write scope is answered PermissionDenied.
C26_ServiceMethodDenied ==
    /\ call.interceptor = "oidc" /\ call.pc = "returned"
    /\ call.FullMethod = "/openfga.v1.OpenFGAService/Write"
    /\ "openfga:write" \in call.scopes /\ call.claims
    /\ call.code = "PermissionDenied" /\ call.handlerCalls = 0

\* C27: through the OIDC scope interceptor, an authenticated caller with the
\* scope openfga:write reaches the handler of the Write RPC, FullMethod
\* /openfga.v1.OpenFGAService/Write, and one with openfga:read the handler of
\* the Read RPC, /openfga.v1.OpenFGAService/Read.
C27_ScopedCallerReachesHandler ==
    (call.interceptor = "oidc" /\ call.claims /\ call.pc = "returned") =>
        /\ (call.FullMethod = "/openfga.v1.OpenFGAService/Write"
                /\ "openfga:write" \in call.scopes) => call.handlerCalls = 1
        /\ (call.FullMethod = "/openfga.v1.OpenFGAService/Read"
                /\ "openfga:read" \in call.scopes) => call.handlerCalls = 1

\* The relation the middleware is to ask for, for the RPCs it guards.
GuardedMethods ==
    {<<"/openfga.v1.OpenFGAService/CreateStore", "create_store">>,
     <<"/openfga.v1.OpenFGAService/Write", "tuple_writer">>,
     <<"/openfga.v1.OpenFGAService/Read", "tuple_reader">>}

\* C28: in the OpenFGA authorizer middleware the handler of CreateStore,
\* Write and Read is invoked only after Authorized returned Allowed=true for
\* create_store, tuple_writer and tuple_reader; when Authorized returns
\* Allowed=false or an error the middleware answers PermissionDenied, the
\* handler not invoked; a call without auth claims answers Unauthenticated.
C28_HandlerOnlyAfterAllowed ==
    call.interceptor = "openfga" =>
        /\ \A mr \in GuardedMethods :
              (call.FullMethod = mr[1] /\ call.handlerCalls > 0) =>
                  (call.authorized.Allowed /\ call.authorized.Relation = mr[2])
        /\ (call.authorized.Relation # "" /\ call.pc \notin {"received", "authorizing"}
                /\ ~call.authorized.Allowed) =>
              (call.pc = "returned" /\ call.code = "PermissionDenied"
                  /\ call.handlerCalls = 0)
        /\ (~call.claims /\ call.pc # "received") =>
              (call.pc = "returned" /\ call.code = "Unauthenticated")

\* C28, the part that holds: CreateStore and Write are invoked only after
\* Authorized returned Allowed=true for create_store and tuple_writer, and a
\* denied call is answered PermissionDenied.
C28_WriteOnlyAfterAllowed ==
    call.interceptor = "openfga" =>
        /\ \A mr \in GuardedMethods \ {<<"/openfga.v1.OpenFGAService/Read", "tuple_reader">>} :
              (call.FullMethod = mr[1] /\ call.handlerCalls > 0) =>
                  (call.authorized.Allowed /\ call.authorized.Relation = mr[2])
        /\ (call.pc = "returned" /\ call.authorized.Relation # ""
                /\ ~call.authorized.Allowed) =>
              (call.code = "PermissionDenied" /\ call.handlerCalls = 0)
        /\ (~call.claims /\ call.pc # "received") =>
              (call.pc = "returned" /\ call.code = "Unauthenticated")

GrpcStarted == run.grpc \in {"listening", "serving"}

\* C29: Run returns nil or the error of the HTTP shutdown only after its
\* context was cancelled and the HTTP server shut down, and on every path on
\* which Run started the gRPC server, the gRPC server is stopped in the end
\* once Run has returned, be it with nil, with the error of the gateway
\* registration or with the error of the HTTP shutdown.
C29_GrpcStoppedAfterRun ==
    /\ []((run.pc = "returned" /\ run.result \in {"nil", "ShutdownError"})
            => (run.cancelled /\ run.http = "closed"))
    /\ []((run.pc = "returned" /\ GrpcStarted) => <>(run.grpc = "stopped"))

\* C29, the part that holds: when Run returns nil or the error of the HTTP
\* shutdown, its context was cancelled, the HTTP server is shut down and the
\* gRPC server is stopped in the end.
C29_GrpcStoppedAfterShutdown ==
    /\ []((run.pc = "returned" /\ run.result \in {"nil", "ShutdownError"})
            => (run.cancelled /\ run.http = "closed"))
    /\ []((run.pc = "returned" /\ run.result \in {"nil", "ShutdownError"})
            => <>(run.grpc = "stopped"))

\* Run has returned the error of the registration and the gRPC server
\* serves, with nothing left to stop it.
C29_GrpcLeftServing ==
    /\ run.pc = "returned" /\ run.result = "RegisterError"
    /\ run.grpc = "serving" /\ run.onShutdown = "none"
    /\ run.accepted > 0

====
